---- MODULE Spec2Model ----
(***************************************************************************)
(* Model of the duckdb-eurostat extension core: the predicate-to-remote-   *)
(* filter compiler (filter_encoder.cpp) and the EUROSTAT_Read scan         *)
(* (eurostat_data_functions.cpp).                                          *)
(*                                                                         *)
(* A std::string is a sequence of lexemes: every separator character the   *)
(* code looks at ("/", ".", "+", "?", "&", TAB, ",", " ") is one element,  *)
(* and a run of other characters (a value such as "2", the flag "---",     *)
(* the literal "startPeriod=") is one element.  The empty string is << >>. *)
(* Indices into vectors are 0-based as in the source; Sequences are        *)
(* 1-based, so element i of a vector v is v[i + 1].                        *)
(***************************************************************************)
EXTENDS Integers, Sequences, FiniteSets, TLC

\* ---------------------------------------------------------------- bounds
\* Constants of predicates and time periods are "1" .. ToString(MaxVal).
MaxVal == 3
\* Longest IN list.
MaxIn == 2
\* Most request URLs of one scan.
MaxUrls == 2
\* Most data lines over all the responses of one scan.
MaxLines == 2

VARIABLES
    pc,               \* position of the bind: "bound", "pushed", "encoded",
                      \* "crashed" (the process died in the pushdown)
    data_structure,   \* BindData::data_structure
    column_ids,       \* LogicalGet column ids / TableFunctionInitInput::column_ids
    in_expressions,   \* the predicate the engine handed over (never changes)
    expressions,      \* the caller's expression list (EncodeExpression may clear it)
    table_filters,    \* TableFilterSet* handed to FilterEncoder::Encode
    result,           \* FilterEncoderResult of the last encode
    filter_set,       \* EurostatFilterSet local of the last encode
    complex_filters,  \* BindData::complex_filters
    scan_pc,          \* position of ES_Read::Init: "idle", "fetch", "parse",
                      \* "done" (returned), "failed" (threw), "crashed"
    url_total,        \* data_urls.size()
    data_urls,        \* data_urls: the vector GetDataUrls returned
    exception,        \* the exception ES_Read::Init threw: [type, what]
    responses,        \* the HTTP responses received so far, one per URL
    url_count,        \* url_count: URLs requested so far
    line_pos,         \* lines of the current body already read
    line_index,       \* line_index: non-empty lines of the body parsed
    time_periods,     \* time_periods of the current body's header
    geo_column_index, \* geo_column_index of the current body's header
    row_keys,         \* row_keys (the keys of the map; every value is true)
    check_keys,       \* check_keys
    dimensions,       \* State::dimensions
    rows,             \* State::rows
    geo_code_str,     \* geo_code_str of ES_GeoLevel::GetGeoLevelFromGeoCode
    geo_level_str,    \* its geo_level, << >> before the call
    current_row,      \* State::current_row
    output,           \* the DataChunk of the last Execute: its rows
    emitted           \* all the rows the Execute calls have put out

encVars == <<pc, data_structure, column_ids, in_expressions, expressions,
             table_filters, result, filter_set, complex_filters>>

scanVars == <<scan_pc, url_total, data_urls, exception, responses, url_count, line_pos, line_index,
              time_periods, geo_column_index, row_keys, check_keys,
              dimensions, rows>>

geoVars == <<geo_code_str, geo_level_str>>

execVars == <<current_row, output, emitted>>

vars == <<encVars, scanVars, geoVars, execVars>>

\* The scalar function has not been called.
GeoIdle ==
    /\ geo_code_str = << >>
    /\ geo_level_str = << >>

\* No Execute call has been made.
ExecIdle ==
    /\ current_row = 0
    /\ output = << >>
    /\ emitted = << >>

NoException == [type |-> "", what |-> << >>]

\* No scan has started.
ScanIdle ==
    /\ scan_pc = "idle"
    /\ url_total = 0
    /\ data_urls = << >>
    /\ exception = NoException
    /\ responses = << >>
    /\ url_count = 0
    /\ line_pos = 0
    /\ line_index = 0
    /\ time_periods = << >>
    /\ geo_column_index = -1
    /\ row_keys = {}
    /\ check_keys = FALSE
    /\ dimensions = << >>
    /\ rows = << >>

\* ------------------------------------------------------- generic helpers
Range(s) == {s[i] : i \in 1..Len(s)}

Last(s) == s[Len(s)]

\* std::vector / std::string pop_back
PopBack(s) == SubSeq(s, 1, Len(s) - 1)

\* Sequences over S of length lo..hi.
SeqsOf(S, lo, hi) == UNION {[1..n -> S] : n \in lo..hi}

\* ------------------------------------------------------------ constants
\* static std::string VIRTUAL_DIMENSION_FLAG = "---";
VIRTUAL_DIMENSION_FLAG == <<"---">>

\* static std::string TIME_PERIOD_DIMENSION_NAME = "time_period";
TIME_PERIOD_DIMENSION_NAME == "time_period"

\* ---------------------------------------------------------------- Value
\* duckdb::Value of a constant: NULL or a VARCHAR.
Val(s) == [is_null |-> FALSE, str |-> s]

NullVal == [is_null |-> TRUE, str |-> ""]

\* Value::ToString(): the characters of the value, "NULL" for a NULL.
ValueToString(v) == IF v.is_null THEN <<"NULL">> ELSE <<v.str>>

\* ------------------------------------------------------ EurostatFilter
\* EurostatFilter::EurostatFilter: one mask slot per dimension; virtual
\* dimensions and the time dimension get the flag.
RECURSIVE InitMask(_, _)
InitMask(ds, i) ==
    IF i > Len(ds) THEN << >>
    ELSE <<IF ds[i].position = -1 \/ ds[i].name = TIME_PERIOD_DIMENSION_NAME
           THEN VIRTUAL_DIMENSION_FLAG ELSE << >> >> \o InitMask(ds, i + 1)

EurostatFilter(ds) ==
    [dim_mask |-> InitMask(ds, 1), start_period |-> << >>, end_period |-> << >>]

\* Mutant of IsEmpty: no branch counts as empty.
IsNeverEmpty(f) == FALSE

\* EurostatFilter::IsEmpty
IsEmpty(f) ==
    IF f.start_period /= << >> \/ f.end_period /= << >> THEN FALSE
    ELSE \A i \in 1..Len(f.dim_mask) :
            ~(f.dim_mask[i] /= << >> /\ f.dim_mask[i] /= VIRTUAL_DIMENSION_FLAG)

\* The loop of EurostatFilter::GetFilterString over dim_mask.
RECURSIVE MaskClause(_, _, _)
MaskClause(dim_mask, i, filter_clause) ==
    IF i > Len(dim_mask) THEN filter_clause
    ELSE LET m == dim_mask[i] IN
         IF m = VIRTUAL_DIMENSION_FLAG THEN MaskClause(dim_mask, i + 1, filter_clause)
         ELSE MaskClause(dim_mask, i + 1,
                  (IF filter_clause = << >> THEN <<"/">> ELSE filter_clause) \o m \o <<".">>)

\* Mutant of GetFilterString: the end bound is written before the start bound.
GetFilterStringEndFirst(f) ==
    LET c1 == MaskClause(f.dim_mask, 1, << >>)
        c2 == IF c1 /= << >> THEN PopBack(c1) ELSE c1
        c3 == c2 \o <<"?">>
        c4 == IF f.end_period /= << >> THEN c3 \o f.end_period \o <<"&">> ELSE c3
    IN  IF f.start_period /= << >> THEN c4 \o f.start_period \o <<"&">> ELSE c4

\* EurostatFilter::GetFilterString
GetFilterString(f) ==
    LET c1 == MaskClause(f.dim_mask, 1, << >>)
        c2 == IF c1 /= << >> THEN PopBack(c1) ELSE c1
        c3 == c2 \o <<"?">>
        c4 == IF f.start_period /= << >> THEN c3 \o f.start_period \o <<"&">> ELSE c3
    IN  IF f.end_period /= << >> THEN c4 \o f.end_period \o <<"&">> ELSE c4

\* --------------------------------------------------- EurostatFilterSet
\* EurostatFilterSet::EurostatFilterSet: one empty filter, supported = false.
EurostatFilterSet(ds) ==
    [data_structure |-> ds, filters |-> <<EurostatFilter(ds)>>, supported |-> FALSE]

\* Mutant of PushEmptyFilter: no branch is appended.
PushNoFilter(fs) == fs

\* A variant of PushEmptyFilter that appends a copy of the current branch.
PushFilterCopy(fs) ==
    [fs EXCEPT !.filters = Append(@, Last(fs.filters))]

\* EurostatFilterSet::PushEmptyFilter
PushEmptyFilter(fs) ==
    [fs EXCEPT !.filters = Append(@, EurostatFilter(fs.data_structure))]

\* EurostatFilterSet::GetCurrentFilter
GetCurrentFilter(fs) == Last(fs.filters)

\* Write through the reference GetCurrentFilter returns.
SetCurrentFilter(fs, f) == [fs EXCEPT !.filters[Len(fs.filters)] = f]

\* `out_result.supported = false; return false;`
Unsupported(fs) ==
    [ok |-> FALSE, fs |-> [fs EXCEPT !.supported = FALSE], thrown |-> FALSE,
     undefined |-> FALSE]

\* `return true;`
Supported(fs) == [ok |-> TRUE, fs |-> fs, thrown |-> FALSE, undefined |-> FALSE]

\* `throw InvalidInputException(...)`
Thrown(fs) == [ok |-> FALSE, fs |-> fs, thrown |-> TRUE, undefined |-> FALSE]

\* `data_structure[dim_idx]` with dim_idx outside the vector: undefined
\* behaviour, the encoding goes no further in the model.
OutOfRange(fs) == [ok |-> FALSE, fs |-> fs, thrown |-> FALSE, undefined |-> TRUE]

\* ------------------------------------------------- TableFilter encoding
\* A variant of GetComparisonOperator that also knows "<>".
GetComparisonOperatorWithNotEqual(type) ==
    CASE type = "COMPARE_EQUAL" -> TRUE
      [] type = "COMPARE_NOTEQUAL" -> TRUE
      [] OTHER -> FALSE

\* FilterEncoder::GetComparisonOperator (the bool it returns; the operator
\* string it writes is never read).
GetComparisonOperator(type) ==
    CASE type = "COMPARE_EQUAL" -> TRUE
      [] OTHER -> FALSE

\* Mutant of EncodeConstantComparison: an equality on a key dimension
\* overwrites the mask slot instead of appending to it.
EncodeConstantComparisonOverwriting(filter, dimension, dim_index, fs) ==
    IF filter.constant.is_null THEN Unsupported(fs)
    ELSE
    LET out_filter == GetCurrentFilter(fs)
        str == ValueToString(filter.constant)
    IN  IF dimension.name = TIME_PERIOD_DIMENSION_NAME THEN
            IF filter.comparison_type = "COMPARE_GREATERTHANOREQUALTO" THEN
                Supported(SetCurrentFilter(fs,
                    [out_filter EXCEPT !.start_period = <<"startPeriod=">> \o str]))
            ELSE IF filter.comparison_type = "COMPARE_LESSTHANOREQUALTO" THEN
                Supported(SetCurrentFilter(fs,
                    [out_filter EXCEPT !.end_period = <<"endPeriod=">> \o str]))
            ELSE IF filter.comparison_type = "COMPARE_EQUAL" THEN
                Supported(SetCurrentFilter(fs,
                    [out_filter EXCEPT !.start_period = <<"startPeriod=">> \o str,
                                       !.end_period = <<"endPeriod=">> \o str]))
            ELSE Unsupported(fs)
        ELSE IF ~GetComparisonOperator(filter.comparison_type) THEN Unsupported(fs)
        ELSE Supported(SetCurrentFilter(fs,
                [out_filter EXCEPT !.dim_mask[dim_index + 1] = str]))

\* FilterEncoder::EncodeConstantComparison.  filter is a ConstantFilter
\* [comparison_type, constant]; the result is [ok, fs, thrown].
EncodeConstantComparison(filter, dimension, dim_index, fs) ==
    IF filter.constant.is_null THEN Unsupported(fs)
    ELSE
    LET out_filter == GetCurrentFilter(fs)
        str == ValueToString(filter.constant)
    IN  IF dimension.name = TIME_PERIOD_DIMENSION_NAME THEN
            IF filter.comparison_type = "COMPARE_GREATERTHANOREQUALTO" THEN
                Supported(SetCurrentFilter(fs,
                    [out_filter EXCEPT !.start_period = <<"startPeriod=">> \o str]))
            ELSE IF filter.comparison_type = "COMPARE_LESSTHANOREQUALTO" THEN
                Supported(SetCurrentFilter(fs,
                    [out_filter EXCEPT !.end_period = <<"endPeriod=">> \o str]))
            ELSE IF filter.comparison_type = "COMPARE_EQUAL" THEN
                Supported(SetCurrentFilter(fs,
                    [out_filter EXCEPT !.start_period = <<"startPeriod=">> \o str,
                                       !.end_period = <<"endPeriod=">> \o str]))
            ELSE Unsupported(fs)
        ELSE IF ~GetComparisonOperator(filter.comparison_type) THEN Unsupported(fs)
        ELSE
        LET mask_v == out_filter.dim_mask[dim_index + 1]
            mask_w == IF mask_v = << >> THEN str ELSE mask_v \o <<"+">> \o str
        IN  Supported(SetCurrentFilter(fs,
                [out_filter EXCEPT !.dim_mask[dim_index + 1] = mask_w]))

\* ConstantFilter(comparison_type, constant)
ConstantFilter(type, constant) == [comparison_type |-> type, constant |-> constant]

\* The loop of FilterEncoder::EncodeInFilter over filter.values.
RECURSIVE EncodeInValues(_, _, _, _, _)
EncodeInValues(values, i, dimension, dim_index, fs) ==
    IF i > Len(values) THEN Supported(fs)
    ELSE LET r == EncodeConstantComparison(ConstantFilter("COMPARE_EQUAL", values[i]),
                                           dimension, dim_index, fs)
         IN  IF ~r.ok THEN Unsupported(r.fs)
             ELSE EncodeInValues(values, i + 1, dimension, dim_index, r.fs)

\* FilterEncoder::EncodeInFilter.  filter is an InFilter [values].
EncodeInFilter(filter, dimension, dim_index, fs) ==
    IF dimension.name = TIME_PERIOD_DIMENSION_NAME /\ Len(filter.values) > 1
    THEN Unsupported(fs)
    ELSE EncodeInValues(filter.values, 1, dimension, dim_index, fs)

RECURSIVE EncodeFilter(_, _, _, _)
RECURSIVE EncodeChildFilters(_, _, _, _, _, _)

\* The child loops of EncodeConjunctionAnd and EncodeConjunctionOr (push is
\* TRUE for the OR loop, which calls PushEmptyFilter after each child).
EncodeChildFilters(child_filters, i, dimension, dim_index, fs, push) ==
    IF i > Len(child_filters) THEN Supported(fs)
    ELSE LET r == EncodeFilter(child_filters[i], dimension, dim_index, fs)
         IN  IF ~r.ok THEN Unsupported(r.fs)
             ELSE EncodeChildFilters(child_filters, i + 1, dimension, dim_index,
                     IF push THEN PushEmptyFilter(r.fs)
                     ELSE r.fs,
                     push)

\* FilterEncoder::EncodeConjunctionAnd
EncodeConjunctionAnd(filter, dimension, dim_index, fs) ==
    IF filter.child_filters = << >> THEN Unsupported(fs)
    ELSE EncodeChildFilters(filter.child_filters, 1, dimension, dim_index, fs, FALSE)

\* FilterEncoder::EncodeConjunctionOr
EncodeConjunctionOr(filter, dimension, dim_index, fs) ==
    IF filter.child_filters = << >> THEN Unsupported(fs)
    ELSE EncodeChildFilters(filter.child_filters, 1, dimension, dim_index, fs, TRUE)

\* FilterEncoder::EncodeFilter.  A TableFilter is
\* [filter_type, comparison_type, constant, values, child_filters]; an
\* OPTIONAL_FILTER holds its child in child_filters (<< >> = no child).
EncodeFilter(filter, dimension, dim_index, fs) ==
    CASE filter.filter_type = "CONSTANT_COMPARISON" ->
            EncodeConstantComparison(filter, dimension, dim_index, fs)
      [] filter.filter_type = "IN_FILTER" ->
            EncodeInFilter(filter, dimension, dim_index, fs)
      [] filter.filter_type = "CONJUNCTION_AND" ->
            EncodeConjunctionAnd(filter, dimension, dim_index, fs)
      [] filter.filter_type = "CONJUNCTION_OR" ->
            EncodeConjunctionOr(filter, dimension, dim_index, fs)
      [] filter.filter_type = "OPTIONAL_FILTER" ->
            IF filter.child_filters = << >> THEN Supported(fs)
            ELSE EncodeFilter(filter.child_filters[1], dimension, dim_index, fs)
      [] OTHER -> Unsupported(fs)

\* FilterEncoderResult
FilterEncoderResult(filters, supported) == [filters |-> filters, supported |-> supported]

\* The final loop of Encode / EncodeExpression: the clause of every
\* non-empty filter, in order.
RECURSIVE BuildClauses(_, _)
BuildClauses(filters, i) ==
    IF i > Len(filters) THEN << >>
    ELSE (IF ~IsEmpty(filters[i]) THEN <<GetFilterString(filters[i])>> ELSE << >>)
         \o BuildClauses(filters, i + 1)

\* constexpr column_t VIRTUAL_COL_START = 2^63 (scaled to TLC's 32-bit
\* integers: every real column index of the model is far below it).
VIRTUAL_COL_START == 2^30

\* The loop of FilterEncoder::Encode over filters->filters; an entry is
\* [first |-> projected column index, second |-> TableFilter].  The result
\* is [result, filter_set].
RECURSIVE EncodeEntries(_, _, _, _, _)
EncodeEntries(entries, i, ds, cids, fs) ==
    IF i > Len(entries) THEN
        LET clauses == BuildClauses(fs.filters, 1)
        IN  [result |-> FilterEncoderResult(clauses, Len(clauses) > 0), filter_set |-> fs]
    ELSE
    LET projected_col_idx == entries[i].first
        unsupported == [result |-> FilterEncoderResult(<< >>, FALSE), filter_set |-> fs]
    IN  IF cids /= << >> /\ projected_col_idx >= Len(cids) THEN unsupported
        ELSE
        LET table_col_idx == IF cids = << >> THEN projected_col_idx
                             ELSE cids[projected_col_idx + 1]
        IN  IF table_col_idx >= VIRTUAL_COL_START THEN unsupported
            ELSE IF table_col_idx >= Len(ds) THEN unsupported
            ELSE IF ds[table_col_idx + 1].position = -1 THEN unsupported
            ELSE LET r == EncodeFilter(entries[i].second, ds[table_col_idx + 1],
                                       table_col_idx, fs)
                 IN  IF ~r.ok THEN [result |-> FilterEncoderResult(<< >>, FALSE),
                                    filter_set |-> r.fs]
                     ELSE EncodeEntries(entries, i + 1, ds, cids, r.fs)

\* FilterEncoder::Encode.  filters is [is_null, filters]: a null pointer, or
\* the entries of the TableFilterSet in key order.
Encode(filters, ds, cids) ==
    IF filters.is_null \/ filters.filters = << >>
    THEN [result |-> FilterEncoderResult(<< >>, FALSE), filter_set |-> EurostatFilterSet(ds)]
    ELSE EncodeEntries(filters.filters, 1, ds, cids, EurostatFilterSet(ds))

\* ------------------------------------------------- Expression encoding
\* column_t is an unsigned 64-bit integer and int a signed 32-bit one;
\* the model keeps the ratio with 31 and 16 bits.
\* constexpr column_t COLUMN_IDENTIFIER_ROW_ID = (column_t)-1
COLUMN_IDENTIFIER_ROW_ID == 2^30 + (2^30 - 1)

IntBits == 16

\* The conversion of a column_t to int by `return dim_index;`.
ToInt(x) ==
    LET m == x % (2^IntBits)
    IN  IF m >= 2^(IntBits - 1) THEN m - 2^IntBits ELSE m

\* FilterEncoder::GetDimensionIndexFromColumnRef.  expr is the operand
\* [cls, binding]: its expression class and, for a column reference, its
\* binding.column_index.
GetDimensionIndexFromColumnRef(expr, ds, cids) ==
    IF expr.cls /= "BOUND_COLUMN_REF" THEN -1
    ELSE IF expr.binding >= Len(cids) THEN -1
    ELSE ToInt(cids[expr.binding + 1])

\* Is `data_structure[dim_idx]` a read of an element of the vector?
InVector(ds, dim_idx) == dim_idx >= 0 /\ dim_idx < Len(ds)

\* The first operand of a comparison, IN or BETWEEN node.
Operand(expr) == [cls |-> expr.lcls, binding |-> expr.binding]

RECURSIVE EncodeExpressionNode(_, _, _, _)
RECURSIVE EncodeChildren(_, _, _, _, _, _)

\* Mutant of EncodeChildren: a child that fails to encode is skipped.
RECURSIVE EncodeChildrenSkippingFailures(_, _, _, _, _, _)
EncodeChildrenSkippingFailures(children, i, ds, cids, fs, push) ==
    IF i > Len(children) THEN Supported(fs)
    ELSE LET r == EncodeExpressionNode(children[i], ds, cids, fs)
         IN  IF r.thrown \/ r.undefined THEN r
             ELSE EncodeChildrenSkippingFailures(children, i + 1, ds, cids,
                     IF push /\ r.ok THEN PushEmptyFilter(r.fs) ELSE r.fs, push)

\* The child loops of the BOUND_CONJUNCTION case (push is TRUE for
\* CONJUNCTION_OR, which calls PushEmptyFilter after each child).
EncodeChildren(children, i, ds, cids, fs, push) ==
    IF i > Len(children) THEN Supported(fs)
    ELSE LET r == EncodeExpressionNode(children[i], ds, cids, fs)
         IN  IF r.thrown \/ r.undefined THEN r
             ELSE IF ~r.ok THEN Unsupported(r.fs)
             ELSE EncodeChildren(children, i + 1, ds, cids,
                                 IF push THEN PushEmptyFilter(r.fs) ELSE r.fs, push)

\* FilterEncoder::EncodeExpressionNode.  An Expression is
\* [cls, type, lcls, rcls, binding, values, children]: its class and type,
\* the class of its first operand (lcls) with that column's binding, the
\* class of its other operands (rcls, BOUND_CONSTANT when all are
\* constants) with their values, and the children of a conjunction.
EncodeExpressionNode(expr, ds, cids, fs) ==
    CASE expr.cls = "BOUND_COMPARISON" ->
            IF expr.lcls = "BOUND_COLUMN_REF" /\ expr.rcls = "BOUND_CONSTANT" THEN
                LET dim_idx == GetDimensionIndexFromColumnRef(Operand(expr), ds, cids)
                IN  IF dim_idx /= -1
                    THEN IF ~InVector(ds, dim_idx) THEN OutOfRange(fs)
                         ELSE EncodeConstantComparison(
                                  ConstantFilter(expr.type, expr.values[1]),
                                  ds[dim_idx + 1], dim_idx, fs)
                    ELSE Unsupported(fs)
            ELSE Unsupported(fs)
      [] expr.cls = "BOUND_OPERATOR" ->
            IF expr.type /= "COMPARE_IN" THEN Unsupported(fs)
            ELSE IF 1 + Len(expr.values) < 2 THEN Thrown(fs)
            ELSE IF expr.lcls /= "BOUND_COLUMN_REF" THEN Unsupported(fs)
            ELSE
            LET dim_idx == GetDimensionIndexFromColumnRef(Operand(expr), ds, cids)
            IN  IF dim_idx /= -1 THEN
                    IF expr.rcls /= "BOUND_CONSTANT" THEN Unsupported(fs)
                    ELSE IF ~InVector(ds, dim_idx) THEN OutOfRange(fs)
                    ELSE EncodeInFilter([values |-> expr.values], ds[dim_idx + 1], dim_idx, fs)
                ELSE Unsupported(fs)
      [] expr.cls = "BOUND_CONJUNCTION" ->
            IF expr.type = "CONJUNCTION_AND"
            THEN EncodeChildren(expr.children, 1, ds, cids, fs, FALSE)
            ELSE IF expr.type = "CONJUNCTION_OR"
            THEN EncodeChildren(expr.children, 1, ds, cids, fs, TRUE)
            ELSE Unsupported(fs)
      [] expr.cls = "BOUND_BETWEEN" ->
            IF expr.lcls /= "BOUND_COLUMN_REF" \/ expr.rcls /= "BOUND_CONSTANT"
            THEN Unsupported(fs)
            ELSE
            LET dim_idx == GetDimensionIndexFromColumnRef(Operand(expr), ds, cids)
            IN  IF dim_idx /= -1 /\ ~InVector(ds, dim_idx) THEN OutOfRange(fs)
                ELSE IF dim_idx /= -1 /\ ds[dim_idx + 1].name = TIME_PERIOD_DIMENSION_NAME THEN
                    Supported(SetCurrentFilter(fs,
                        [GetCurrentFilter(fs) EXCEPT
                            !.start_period = <<"startPeriod=">> \o ValueToString(expr.values[1]),
                            !.end_period = <<"endPeriod=">> \o ValueToString(expr.values[2])]))
                ELSE Unsupported(fs)
      [] OTHER -> Unsupported(fs)

\* The loop of FilterEncoder::EncodeExpression over the expressions.
RECURSIVE EncodeExpressions(_, _, _, _, _)
EncodeExpressions(exprs, i, ds, cids, fs) ==
    IF i > Len(exprs) THEN Supported(fs)
    ELSE LET r == EncodeExpressionNode(exprs[i], ds, cids, fs)
         IN  IF ~r.ok THEN r
             ELSE EncodeExpressions(exprs, i + 1, ds, cids, r.fs)

\* Mutant of EncodeExpression: the caller's list is cleared whatever the
\* result.
EncodeExpressionAlwaysClearing(exprs, ds, cids) ==
    IF exprs = << >>
    THEN [result |-> FilterEncoderResult(<< >>, FALSE), expressions |-> exprs,
          filter_set |-> EurostatFilterSet(ds), thrown |-> FALSE,
          undefined |-> FALSE]
    ELSE
    LET r == EncodeExpressions(exprs, 1, ds, cids, EurostatFilterSet(ds))
    IN  IF ~r.ok
        THEN [result |-> FilterEncoderResult(<< >>, FALSE), expressions |-> << >>,
              filter_set |-> r.fs, thrown |-> r.thrown, undefined |-> r.undefined]
        ELSE
        LET clauses == BuildClauses(r.fs.filters, 1)
        IN  [result |-> FilterEncoderResult(clauses, Len(clauses) > 0),
             expressions |-> << >>, filter_set |-> r.fs, thrown |-> FALSE,
             undefined |-> FALSE]

\* FilterEncoder::EncodeExpression.  The result is
\* [result, expressions, filter_set, thrown]: the FilterEncoderResult, the
\* caller's list as the call leaves it, and the local filter set.
EncodeExpression(exprs, ds, cids) ==
    IF exprs = << >>
    THEN [result |-> FilterEncoderResult(<< >>, FALSE), expressions |-> exprs,
          filter_set |-> EurostatFilterSet(ds), thrown |-> FALSE,
          undefined |-> FALSE]
    ELSE
    LET r == EncodeExpressions(exprs, 1, ds, cids, EurostatFilterSet(ds))
    IN  IF ~r.ok
        THEN [result |-> FilterEncoderResult(<< >>, FALSE), expressions |-> exprs,
              filter_set |-> r.fs, thrown |-> r.thrown, undefined |-> r.undefined]
        ELSE
        LET clauses == BuildClauses(r.fs.filters, 1)
            supported == Len(clauses) > 0
        IN  [result |-> FilterEncoderResult(clauses, supported),
             expressions |-> IF supported THEN << >> ELSE exprs,
             filter_set |-> r.fs, thrown |-> FALSE, undefined |-> FALSE]

\* ------------------------------------------------------------- inputs
\* eurostat::Dimension (the concept label plays no part in the core).
Dimension(position, name) == [position |-> position, name |-> name]

\* Schemas as GetBasicDataSchema builds them: the key dimensions in
\* position order, geo_level (position -1) right after geo, the time
\* dimension last.
Schemas ==
    { <<Dimension(1, "freq"), Dimension(2, "geo"), Dimension(-1, "geo_level"),
        Dimension(3, "time_period")>>,
      <<Dimension(1, "geo"), Dimension(-1, "geo_level"), Dimension(2, "unit"),
        Dimension(3, "time_period")>> }

\* Projections the engine binds: every dimension column, in schema order
\* or rotated by one, or none.
ColumnIdLists(ds) ==
    { [i \in 1..Len(ds) |-> i - 1], [i \in 1..Len(ds) |-> i % Len(ds)], << >> }

Vals == {Val(ToString(i)) : i \in 1..MaxVal}

Consts == Vals \cup {NullVal}

Expression(cls, type, lcls, rcls, binding, values, children) ==
    [cls |-> cls, type |-> type, lcls |-> lcls, rcls |-> rcls, binding |-> binding,
     values |-> values, children |-> children]

\* column <type> constant
Comparison(type, binding, v) ==
    Expression("BOUND_COMPARISON", type, "BOUND_COLUMN_REF", "BOUND_CONSTANT",
               binding, <<v>>, << >>)

\* column IN (values)
InList(binding, values) ==
    Expression("BOUND_OPERATOR", "COMPARE_IN", "BOUND_COLUMN_REF", "BOUND_CONSTANT",
               binding, values, << >>)

\* column BETWEEN lower AND upper
Between(binding, lower, upper) ==
    Expression("BOUND_BETWEEN", "COMPARE_BETWEEN", "BOUND_COLUMN_REF", "BOUND_CONSTANT",
               binding, <<lower, upper>>, << >>)

Conjunction(type, children) ==
    Expression("BOUND_CONJUNCTION", type, "NONE", "NONE", 0, << >>, children)

ComparisonTypes ==
    {"COMPARE_EQUAL", "COMPARE_GREATERTHANOREQUALTO", "COMPARE_LESSTHANOREQUALTO",
     "COMPARE_GREATERTHAN", "COMPARE_NOTEQUAL"}

\* Shapes the compiler has no case for, or whose operands are not
\* column / constant.
OtherShapes ==
    { Expression("BOUND_FUNCTION", "BOUND_FUNCTION", "NONE", "NONE", 0, << >>, << >>),
      Expression("BOUND_COMPARISON", "COMPARE_EQUAL", "BOUND_COLUMN_REF",
                 "BOUND_COLUMN_REF", 0, << >>, << >>),
      Expression("BOUND_COMPARISON", "COMPARE_EQUAL", "BOUND_FUNCTION",
                 "BOUND_CONSTANT", 0, <<Val("1")>>, << >>),
      Expression("BOUND_OPERATOR", "OPERATOR_IS_NULL", "BOUND_COLUMN_REF", "NONE",
                 0, << >>, << >>),
      Expression("BOUND_OPERATOR", "COMPARE_IN", "BOUND_COLUMN_REF", "BOUND_FUNCTION",
                 0, <<Val("1")>>, << >>),
      Expression("BOUND_OPERATOR", "COMPARE_IN", "BOUND_FUNCTION", "BOUND_CONSTANT",
                 0, <<Val("1")>>, << >>),
      Expression("BOUND_BETWEEN", "COMPARE_BETWEEN", "BOUND_COLUMN_REF",
                 "BOUND_FUNCTION", 0, <<Val("1"), Val("2")>>, << >>),
      Expression("BOUND_CONJUNCTION", "CONJUNCTION_AND", "NONE", "NONE", 0, << >>, << >>) }

\* Bindings a predicate may carry over n projected columns: each of them,
\* and one beyond the projected list.
Bindings(n) == 0..n

\* Every leaf: comparisons, IN lists and BETWEENs over every binding,
\* comparator and constant (NULL included).
Leaves(n) ==
    {Comparison(t, b, v) : t \in ComparisonTypes, b \in Bindings(n), v \in Consts}
    \cup {InList(b, vs) : b \in Bindings(n), vs \in SeqsOf(Consts, 1, MaxIn)}
    \cup {Between(b, lo, hi) : b \in Bindings(n), lo \in Consts, hi \in Consts}
    \cup OtherShapes

\* The leaves nested trees are built from: an equality with "1" on every
\* projected column, an equality with "2" on the first, and one
\* unsupported shape.
Atoms(n) ==
    {Comparison("COMPARE_EQUAL", b, Val("1")) : b \in 0..(n - 1)}
    \cup {Comparison("COMPARE_EQUAL", 0, Val("2")),
          Expression("BOUND_FUNCTION", "BOUND_FUNCTION", "NONE", "NONE", 0, << >>, << >>)}

\* The two atoms every leaf is paired with.
PairAtoms ==
    {Comparison("COMPARE_EQUAL", 0, Val("1")),
     Expression("BOUND_FUNCTION", "BOUND_FUNCTION", "NONE", "NONE", 0, << >>, << >>)}

ConjunctionTypes == {"CONJUNCTION_AND", "CONJUNCTION_OR"}

\* Conjunctions of two atoms.
Level1(n) ==
    {Conjunction(t, <<x, y>>) : t \in ConjunctionTypes, x \in Atoms(n), y \in Atoms(n)}

\* Conjunctions of a leaf and an atom, either way round.
Level1Leaf(n) ==
    {Conjunction(t, <<x, y>>) : t \in ConjunctionTypes, x \in Leaves(n), y \in PairAtoms}
    \cup {Conjunction(t, <<y, x>>) : t \in ConjunctionTypes, x \in Leaves(n), y \in PairAtoms}

\* Conjunctions of three equalities on the first projected column.
Level1Three ==
    {Conjunction(t, [i \in 1..3 |-> Comparison("COMPARE_EQUAL", 0, vs[i])]) :
        t \in ConjunctionTypes, vs \in [1..3 -> Vals]}

\* Conjunctions of a nested conjunction and an atom, either way round, and
\* disjunctions of two nested conjunctions.
Level2(n) ==
    {Conjunction(t, <<x, y>>) : t \in ConjunctionTypes, x \in Level1(n), y \in Atoms(n)}
    \cup {Conjunction(t, <<y, x>>) : t \in ConjunctionTypes, x \in Level1(n), y \in Atoms(n)}
    \cup {Conjunction("CONJUNCTION_OR", <<x, y>>) :
            x \in {c \in Level1(n) : c.type = "CONJUNCTION_AND"},
            y \in {c \in Level1(n) : c.type = "CONJUNCTION_AND"}}

\* The expression lists PushdownComplexFilter receives: nothing, one tree,
\* or two trees (which the engine means as their conjunction).
ExpressionLists(n) ==
    {<< >>}
    \cup {<<e>> : e \in Leaves(n) \cup Level1(n) \cup Level1Leaf(n) \cup Level1Three
                       \cup Level2(n)}
    \cup {<<x, y>> : x \in Atoms(n), y \in Atoms(n) \cup Level1(n)}
    \cup {<<x, y>> : x \in Level1(n), y \in Atoms(n)}

\* TableFilter records.
TableFilter(filter_type, comparison_type, constant, values, child_filters) ==
    [filter_type |-> filter_type, comparison_type |-> comparison_type,
     constant |-> constant, values |-> values, child_filters |-> child_filters]

ConstantComparison(type, v) == TableFilter("CONSTANT_COMPARISON", type, v, << >>, << >>)

InFilter(values) == TableFilter("IN_FILTER", "INVALID", NullVal, values, << >>)

ConjunctionFilter(filter_type, child_filters) ==
    TableFilter(filter_type, "INVALID", NullVal, << >>, child_filters)

OptionalFilter(child_filters) ==
    TableFilter("OPTIONAL_FILTER", "INVALID", NullVal, << >>, child_filters)

IsNotNullFilter == TableFilter("IS_NOT_NULL", "INVALID", NullVal, << >>, << >>)

FilterLeaves ==
    {ConstantComparison(t, v) : t \in ComparisonTypes, v \in Consts}
    \cup {InFilter(vs) : vs \in SeqsOf(Consts, 1, MaxIn)}
    \cup {IsNotNullFilter, OptionalFilter(<< >>)}

FilterAtoms ==
    {ConstantComparison("COMPARE_EQUAL", Val("1")),
     ConstantComparison("COMPARE_EQUAL", Val("2")), IsNotNullFilter}

FilterLevel1 ==
    {ConjunctionFilter(t, <<x, y>>) :
        t \in {"CONJUNCTION_AND", "CONJUNCTION_OR"}, x \in FilterLeaves, y \in FilterAtoms}
    \cup {ConjunctionFilter(t, <<y, x>>) :
        t \in {"CONJUNCTION_AND", "CONJUNCTION_OR"}, x \in FilterLeaves, y \in FilterAtoms}
    \cup {ConjunctionFilter(t, << >>) : t \in {"CONJUNCTION_AND", "CONJUNCTION_OR"}}
    \cup {OptionalFilter(<<x>>) : x \in FilterLeaves}

\* The TableFilterSets handed to Encode: a null pointer, no entry, one
\* entry on any projected index (one beyond the columns included), or two
\* entries in key order.
TableFilterSets(n) ==
    {[is_null |-> TRUE, filters |-> << >>], [is_null |-> FALSE, filters |-> << >>]}
    \cup {[is_null |-> FALSE, filters |-> <<[first |-> c, second |-> f]>>] :
            c \in 0..n, f \in FilterLeaves \cup FilterLevel1}
    \cup {[is_null |-> FALSE,
           filters |-> <<[first |-> cd[1], second |-> f], [first |-> cd[2], second |-> g]>>] :
            cd \in {p \in (0..n) \X (0..n) : p[1] < p[2]},
            f \in FilterAtoms, g \in FilterAtoms}

NullFilterSet == [is_null |-> TRUE, filters |-> << >>]

EmptyResult == FilterEncoderResult(<< >>, FALSE)

\* ---------------------------------------------------------- GetDataUrls
\* BindData::provider_id and BindData::dataflow_id of the modelled bind.
provider_id == "ESTAT"

dataflow_id == "DEMO_R_D2JAN"

\* base_url = api_url + "data/" + dataflow_id
base_url == <<"api_url", "data/", dataflow_id>>

FORMAT_PARAMETERS == <<"format=TSV", "&", "compressed=true">>

\* A variant of the insertion that does not look the URL up first.
EmplaceUrlAlways(urls, url) == Append(urls, url)

\* if (urls.find(url) == urls.end()) urls.emplace(url, true): the keys of
\* the map, kept as a list in insertion order.
EmplaceUrl(urls, url) ==
    IF url \in Range(urls) THEN urls ELSE Append(urls, url)

\* The loop over bind_data.complex_filters.
RECURSIVE CollectUrls(_, _, _, _)
CollectUrls(filters, i, base, urls) ==
    IF i > Len(filters) THEN urls
    ELSE IF filters[i] /= << >>
    THEN CollectUrls(filters, i + 1, base,
                     EmplaceUrl(urls, base \o filters[i] \o FORMAT_PARAMETERS))
    ELSE CollectUrls(filters, i + 1, base, urls)

\* The keys of the map when the loops are over.
UrlKeys(filters, base) ==
    LET urls == CollectUrls(filters, 1, base, << >>)
    IN  IF urls = << >> THEN <<base \o <<"?">> \o FORMAT_PARAMETERS>> ELSE urls

\* The orders in which iterating a std::unordered_map can yield its keys.
Orders(keys) ==
    {[i \in 1..Len(keys) |-> keys[f[i]]] :
        f \in {g \in [1..Len(keys) -> 1..Len(keys)] :
                  \A i, j \in 1..Len(keys) : i /= j => g[i] /= g[j]}}

\* ES_Read::GetDataUrls: the vectors it can return.
GetDataUrls(filters, base) == Orders(UrlKeys(filters, base))

\* ------------------------------------------------------------- actions
\* The state after Bind: a schema, the projection, and the predicate the
\* engine is about to push down, as an expression list or as a
\* TableFilterSet.
InitEnc ==
    /\ pc = "bound"
    /\ data_structure \in Schemas
    /\ column_ids \in ColumnIdLists(data_structure)
    /\ \/ /\ in_expressions \in ExpressionLists(Len(column_ids))
          /\ table_filters = NullFilterSet
       \/ /\ in_expressions = << >>
          /\ table_filters \in TableFilterSets(Len(data_structure))
    /\ expressions = in_expressions
    /\ result = EmptyResult
    /\ filter_set = EurostatFilterSet(data_structure)
    /\ complex_filters = << >>
    /\ ScanIdle
    /\ GeoIdle
    /\ ExecIdle

\* ES_Read::PushdownComplexFilter: compile the expressions and keep the
\* non-empty clauses of a supported result in the bind data.  The engine
\* takes this entry point when it holds no TableFilterSet.
PushdownComplexFilter ==
    /\ pc = "bound"
    /\ table_filters.is_null
    /\ LET r == EncodeExpression(expressions, data_structure, column_ids)
       IN  /\ ~r.thrown
           /\ ~r.undefined
           /\ expressions' = r.expressions
           /\ result' = r.result
           /\ filter_set' = r.filter_set
           /\ complex_filters' =
                 IF r.result.supported
                 THEN SelectSeq(r.result.filters, LAMBDA c : c /= << >>)
                 ELSE << >>
    /\ pc' = "pushed"
    /\ UNCHANGED <<data_structure, column_ids, in_expressions, table_filters>>
    /\ UNCHANGED <<scanVars, geoVars, execVars>>

\* A call of FilterEncoder::Encode on the TableFilterSet (the entry point
\* for a predicate that reaches the scan as table filters).
EncodeTableFilters ==
    /\ pc = "bound"
    /\ in_expressions = << >>
    /\ LET r == Encode(table_filters, data_structure, column_ids)
       IN  /\ result' = r.result
           /\ filter_set' = r.filter_set
    /\ pc' = "encoded"
    /\ UNCHANGED <<data_structure, column_ids, in_expressions, expressions,
                   table_filters, complex_filters>>
    /\ UNCHANGED <<scanVars, geoVars, execVars>>

\* The start of ES_Read::Init after the pushdown: the URLs of the scan and
\* whether row keys are checked.
InitDataUrls ==
    /\ pc = "pushed"
    /\ scan_pc = "idle"
    /\ \E urls \in GetDataUrls(complex_filters, base_url) :
          /\ data_urls' = urls
          /\ url_total' = Len(urls)
          /\ check_keys' = (Len(urls) > 1)
    /\ scan_pc' = "fetch"
    /\ UNCHANGED <<exception, responses, url_count, line_pos, line_index,
                   time_periods, geo_column_index, row_keys, dimensions, rows>>
    /\ UNCHANGED <<encVars, geoVars, execVars>>

NextEnc == PushdownComplexFilter \/ EncodeTableFilters \/ InitDataUrls

SpecEnc == InitEnc /\ [][NextEnc]_vars

\* ----------------------------------------- pushdown over all the columns
\* The column lists of a LogicalGet that holds more than dimension
\* columns: every column of the table (the dimensions, then
\* observation_value, whose index is data_structure.size()), a pruned
\* list that starts with observation_value, and a list with a virtual
\* column, which PushdownComplexFilter maps to COLUMN_IDENTIFIER_ROW_ID.
AllColumnIdLists(ds) ==
    { [i \in 1..(Len(ds) + 1) |-> i - 1],
      <<Len(ds), 0>>,
      <<COLUMN_IDENTIFIER_ROW_ID, 0>> }

\* The state after Bind, with such a column list.
InitIdx ==
    /\ pc = "bound"
    /\ data_structure \in Schemas
    /\ column_ids \in AllColumnIdLists(data_structure)
    /\ \/ /\ in_expressions \in
                {<<e>> : e \in Leaves(Len(column_ids)) \cup Level1Leaf(Len(column_ids))}
          /\ table_filters = NullFilterSet
       \/ /\ in_expressions = << >>
          /\ table_filters \in TableFilterSets(Len(column_ids))
    /\ expressions = in_expressions
    /\ result = EmptyResult
    /\ filter_set = EurostatFilterSet(data_structure)
    /\ complex_filters = << >>
    /\ ScanIdle
    /\ GeoIdle
    /\ ExecIdle

\* ES_Read::PushdownComplexFilter on a predicate whose compilation reads
\* data_structure out of range.  The read yields whatever the memory
\* behind the vector holds or kills the process; in the model the call
\* either dies or takes the garbage for a dimension it cannot encode.
PushdownOutOfRange ==
    /\ pc = "bound"
    /\ table_filters.is_null
    /\ LET r == EncodeExpression(expressions, data_structure, column_ids)
       IN  /\ r.undefined
           /\ filter_set' = r.filter_set
    /\ pc' \in {"crashed", "pushed"}
    /\ result' = EmptyResult
    /\ complex_filters' = << >>
    /\ UNCHANGED <<data_structure, column_ids, in_expressions, expressions,
                   table_filters>>
    /\ UNCHANGED <<scanVars, geoVars, execVars>>

NextIdx == PushdownComplexFilter \/ PushdownOutOfRange \/ EncodeTableFilters

SpecIdx == InitIdx /\ [][NextIdx]_vars

\* ====================================================================
\* Meaning of predicates and of filter clauses (used by the properties)
\* ====================================================================
\* Pieces of s between occurrences of sep (empty pieces kept).
RECURSIVE SplitFrom(_, _, _, _)
SplitFrom(s, sep, i, cur) ==
    IF i > Len(s) THEN <<cur>>
    ELSE IF s[i] = sep THEN <<cur>> \o SplitFrom(s, sep, i + 1, << >>)
    ELSE SplitFrom(s, sep, i + 1, Append(cur, s[i]))

Split(s, sep) == SplitFrom(s, sep, 1, << >>)

\* The pieces of s joined by sep.
RECURSIVE Join(_, _)
Join(pieces, sep) ==
    IF pieces = << >> THEN << >>
    ELSE IF Len(pieces) = 1 THEN pieces[1]
    ELSE pieces[1] \o <<sep>> \o Join(Tail(pieces), sep)

ValStrs == {v.str : v \in Vals}

\* Periods and values are ordered as the numbers they spell.
Ord(str) == CHOOSE i \in 1..MaxVal : ToString(i) = str

\* 0-based indices of the dimensions, of those of the remote key, and of
\* the time dimension.
DimIndices == 0..(Len(data_structure) - 1)

IsTime(d) == data_structure[d + 1].name = TIME_PERIOD_DIMENSION_NAME

IsVirtual(d) == data_structure[d + 1].position = -1

KeyDims == {d \in DimIndices : ~IsVirtual(d) /\ ~IsTime(d)}

TimeDim == CHOOSE d \in DimIndices : IsTime(d)

\* The dimension whose remote key position is k.
KeyDimAt(k) == CHOOSE d \in KeyDims : data_structure[d + 1].position = k

\* A row of the remote dataset: a value for every key dimension and a period.
Rows == [KeyDims \cup {TimeDim} -> ValStrs]

\* Is the binding a projected column, and which dimension is it?
Projected(binding) == binding < Len(column_ids)

DimOf(binding) == column_ids[binding + 1]

\* SQL meaning of a comparison of two non-NULL values.
Compare(type, x, y) ==
    CASE type = "COMPARE_EQUAL" -> x = y
      [] type = "COMPARE_NOTEQUAL" -> x /= y
      [] type = "COMPARE_GREATERTHANOREQUALTO" -> Ord(x) >= Ord(y)
      [] type = "COMPARE_LESSTHANOREQUALTO" -> Ord(x) <= Ord(y)
      [] type = "COMPARE_GREATERTHAN" -> Ord(x) > Ord(y)

\* A tree built only from the shapes the compiler is specified to push
\* down, over key dimensions and the time dimension, with non-NULL
\* constants: equality, IN, time >= / <= / BETWEEN, AND, OR.
RECURSIVE PushableShape(_)
PushableShape(e) ==
    CASE e.cls = "BOUND_COMPARISON" ->
            /\ e.lcls = "BOUND_COLUMN_REF" /\ e.rcls = "BOUND_CONSTANT"
            /\ Projected(e.binding) /\ ~IsVirtual(DimOf(e.binding))
            /\ ~e.values[1].is_null
            /\ \/ e.type = "COMPARE_EQUAL"
               \/ /\ IsTime(DimOf(e.binding))
                  /\ e.type \in {"COMPARE_GREATERTHANOREQUALTO", "COMPARE_LESSTHANOREQUALTO"}
      [] e.cls = "BOUND_OPERATOR" ->
            /\ e.type = "COMPARE_IN"
            /\ e.lcls = "BOUND_COLUMN_REF" /\ e.rcls = "BOUND_CONSTANT"
            /\ Projected(e.binding) /\ ~IsVirtual(DimOf(e.binding))
            /\ \A i \in 1..Len(e.values) : ~e.values[i].is_null
            /\ IsTime(DimOf(e.binding)) => Len(e.values) = 1
      [] e.cls = "BOUND_BETWEEN" ->
            /\ e.lcls = "BOUND_COLUMN_REF" /\ e.rcls = "BOUND_CONSTANT"
            /\ Projected(e.binding) /\ IsTime(DimOf(e.binding))
            /\ ~e.values[1].is_null /\ ~e.values[2].is_null
      [] e.cls = "BOUND_CONJUNCTION" ->
            /\ e.type \in ConjunctionTypes
            /\ e.children /= << >>
            /\ \A i \in 1..Len(e.children) : PushableShape(e.children[i])
      [] OTHER -> FALSE

\* Does the row satisfy the predicate (a PushableShape tree)?
RECURSIVE Satisfies(_, _)
Satisfies(row, e) ==
    CASE e.cls = "BOUND_COMPARISON" ->
            Compare(e.type, row[DimOf(e.binding)], e.values[1].str)
      [] e.cls = "BOUND_OPERATOR" ->
            \E i \in 1..Len(e.values) : row[DimOf(e.binding)] = e.values[i].str
      [] e.cls = "BOUND_BETWEEN" ->
            /\ Ord(row[DimOf(e.binding)]) >= Ord(e.values[1].str)
            /\ Ord(row[DimOf(e.binding)]) <= Ord(e.values[2].str)
      [] e.cls = "BOUND_CONJUNCTION" ->
            IF e.type = "CONJUNCTION_AND"
            THEN \A i \in 1..Len(e.children) : Satisfies(row, e.children[i])
            ELSE \E i \in 1..Len(e.children) : Satisfies(row, e.children[i])

\* The parts of a clause "/s1.s2...sn?startPeriod=X&endPeriod=Y&": the
\* selectors s1..sn and the query parameters.
ClausePath(clause) == Split(clause, "?")[1]

ClauseQuery(clause) == Split(clause, "?")[2]

ClauseSlots(clause) ==
    IF ClausePath(clause) = << >> THEN << >> ELSE Split(Tail(ClausePath(clause)), ".")

\* The values of a '+'-joined selector.
SelectorValues(slot) == Range(Split(slot, "+"))

\* The value of the query parameter `name` of the clause, << >> if absent.
QueryParam(clause, name) ==
    LET params == Split(ClauseQuery(clause), "&")
        hits == {i \in 1..Len(params) : params[i] /= << >> /\ params[i][1] = name}
    IN  IF hits = {} THEN << >> ELSE Tail(params[CHOOSE i \in hits : TRUE])

\* Does the remote service return the row for the clause?  Slot k
\* constrains the dimension of key position k to its value set; an empty
\* slot constrains nothing; the period lies within the bounds given.
ClauseSelects(clause, row) ==
    /\ \A k \in 1..Len(ClauseSlots(clause)) :
          ClauseSlots(clause)[k] /= << >> =>
              <<row[KeyDimAt(k)]>> \in SelectorValues(ClauseSlots(clause)[k])
    /\ QueryParam(clause, "startPeriod=") /= << >> =>
          Ord(row[TimeDim]) >= Ord(QueryParam(clause, "startPeriod=")[1])
    /\ QueryParam(clause, "endPeriod=") /= << >> =>
          Ord(row[TimeDim]) <= Ord(QueryParam(clause, "endPeriod=")[1])

\* ====================================================================
\* Properties
\* ====================================================================
\* C1 -- Pushdown soundness: whenever EncodeExpression reports a tree of
\* pushable shapes as supported (and so takes it from the engine), the rows
\* the emitted clauses select together are exactly the rows that satisfy
\* the predicate.
C1_PushdownSelectsExactly ==
    (/\ pc = "pushed"
     /\ result.supported
     /\ \A i \in 1..Len(in_expressions) : PushableShape(in_expressions[i]))
    => \A row \in Rows :
          (\E c \in 1..Len(result.filters) : ClauseSelects(result.filters[c], row))
          <=> (\A i \in 1..Len(in_expressions) : Satisfies(row, in_expressions[i]))

\* The dimension a TableFilterSet entry is about.
EntryDim(entry) ==
    IF column_ids = << >> THEN entry.first ELSE column_ids[entry.first + 1]

EntryProjected(entry) == column_ids = << >> \/ entry.first < Len(column_ids)

\* Does the predicate tree reference a virtual dimension (position -1)
\* through a column of one of its comparisons, IN lists or BETWEENs?
RECURSIVE ReferencesVirtual(_)
ReferencesVirtual(e) ==
    IF e.cls = "BOUND_CONJUNCTION"
    THEN \E i \in 1..Len(e.children) : ReferencesVirtual(e.children[i])
    ELSE /\ e.cls \in {"BOUND_COMPARISON", "BOUND_OPERATOR", "BOUND_BETWEEN"}
         /\ e.lcls = "BOUND_COLUMN_REF"
         /\ Projected(e.binding)
         /\ IsVirtual(DimOf(e.binding))

\* C2 -- Virtual column exclusion: a predicate that references a dimension
\* of position -1 compiles to supported = false with no clause, through
\* EncodeExpression and through Encode, and no emitted clause carries a
\* selector for a virtual dimension (a clause has one slot per key
\* dimension and the flag of a virtual slot never reaches it).
C2_VirtualColumnExcluded ==
    /\ (pc = "pushed" /\ \E i \in 1..Len(in_expressions) : ReferencesVirtual(in_expressions[i]))
       => (~result.supported /\ result.filters = << >> /\ complex_filters = << >>)
    /\ (pc = "encoded" /\ \E i \in 1..Len(table_filters.filters) :
            /\ EntryProjected(table_filters.filters[i])
            /\ EntryDim(table_filters.filters[i]) \in DimIndices
            /\ IsVirtual(EntryDim(table_filters.filters[i])))
       => (~result.supported /\ result.filters = << >>)
    /\ \A c \in 1..Len(result.filters) :
          /\ Len(ClauseSlots(result.filters[c])) = Cardinality(KeyDims)
          /\ "---" \notin Range(result.filters[c])

\* A node the compiler has no encoding for: a class without a case, an
\* operand that is not a column / a constant, a column outside the
\* projection, a NULL comparison constant or IN member, a comparator other
\* than = (or >=, <= on the time dimension), an IN of several periods, a
\* BETWEEN on a dimension other than time, or a conjunction with such a
\* child.  (An equality on a virtual dimension and a NULL bound of a time
\* BETWEEN are the subject of C2 and C25.)
RECURSIVE UnsupportedShape(_)
UnsupportedShape(e) ==
    CASE e.cls = "BOUND_COMPARISON" ->
            \/ e.lcls /= "BOUND_COLUMN_REF" \/ e.rcls /= "BOUND_CONSTANT"
            \/ ~Projected(e.binding)
            \/ e.values[1].is_null
            \/ IF IsTime(DimOf(e.binding))
               THEN e.type \notin {"COMPARE_EQUAL", "COMPARE_GREATERTHANOREQUALTO",
                                   "COMPARE_LESSTHANOREQUALTO"}
               ELSE e.type /= "COMPARE_EQUAL"
      [] e.cls = "BOUND_OPERATOR" ->
            \/ e.type /= "COMPARE_IN"
            \/ e.lcls /= "BOUND_COLUMN_REF" \/ e.rcls /= "BOUND_CONSTANT"
            \/ ~Projected(e.binding)
            \/ \E i \in 1..Len(e.values) : e.values[i].is_null
            \/ (IsTime(DimOf(e.binding)) /\ Len(e.values) > 1)
      [] e.cls = "BOUND_BETWEEN" ->
            \/ e.lcls /= "BOUND_COLUMN_REF" \/ e.rcls /= "BOUND_CONSTANT"
            \/ ~Projected(e.binding)
            \/ ~IsTime(DimOf(e.binding))
      [] e.cls = "BOUND_CONJUNCTION" ->
            \/ e.type \notin ConjunctionTypes
            \/ \E i \in 1..Len(e.children) : UnsupportedShape(e.children[i])
      [] OTHER -> TRUE

\* Is there, at any depth of the tree, an AND with an unsupported child?
RECURSIVE AndWithUnsupportedChild(_)
AndWithUnsupportedChild(e) ==
    /\ e.cls = "BOUND_CONJUNCTION"
    /\ \/ /\ e.type = "CONJUNCTION_AND"
          /\ \E i \in 1..Len(e.children) : UnsupportedShape(e.children[i])
       \/ \E i \in 1..Len(e.children) : AndWithUnsupportedChild(e.children[i])

\* The same for a TableFilter on dimension d.
RECURSIVE UnsupportedFilter(_, _)
UnsupportedFilter(f, d) ==
    CASE f.filter_type = "CONSTANT_COMPARISON" ->
            \/ f.constant.is_null
            \/ IF IsTime(d)
               THEN f.comparison_type \notin {"COMPARE_EQUAL", "COMPARE_GREATERTHANOREQUALTO",
                                              "COMPARE_LESSTHANOREQUALTO"}
               ELSE f.comparison_type /= "COMPARE_EQUAL"
      [] f.filter_type = "IN_FILTER" ->
            \/ \E i \in 1..Len(f.values) : f.values[i].is_null
            \/ (IsTime(d) /\ Len(f.values) > 1)
      [] f.filter_type \in {"CONJUNCTION_AND", "CONJUNCTION_OR"} ->
            \/ f.child_filters = << >>
            \/ \E i \in 1..Len(f.child_filters) : UnsupportedFilter(f.child_filters[i], d)
      [] f.filter_type = "OPTIONAL_FILTER" ->
            \E i \in 1..Len(f.child_filters) : UnsupportedFilter(f.child_filters[i], d)
      [] OTHER -> TRUE

\* C3 -- AND all-or-nothing: a predicate holding, at any depth and in any
\* child position, an AND with an unsupported child compiles to
\* supported = false with no clause (and stays with the engine), whatever
\* the other children are; so does a CONJUNCTION_AND table filter.
C3_AndAllOrNothing ==
    /\ (pc = "pushed" /\ \E i \in 1..Len(in_expressions) :
                            AndWithUnsupportedChild(in_expressions[i]))
       => /\ ~result.supported
          /\ result.filters = << >>
          /\ complex_filters = << >>
          /\ expressions = in_expressions
    /\ (pc = "encoded" /\ \E i \in 1..Len(table_filters.filters) :
            LET entry == table_filters.filters[i]
            IN  /\ EntryProjected(entry)
                /\ EntryDim(entry) \in DimIndices
                /\ entry.second.filter_type = "CONJUNCTION_AND"
                /\ UnsupportedFilter(entry.second, EntryDim(entry)))
       => (~result.supported /\ result.filters = << >>)

\* Witness of C3: an AND nested under another conjunction, with an
\* unsupported child next to a child that is encodable alone, was compiled.
C3_Witness ==
    /\ pc = "pushed"
    /\ Len(in_expressions) = 1
    /\ in_expressions[1].cls = "BOUND_CONJUNCTION"
    /\ \E i \in 1..Len(in_expressions[1].children) :
          LET c == in_expressions[1].children[i]
          IN  /\ c.cls = "BOUND_CONJUNCTION" /\ c.type = "CONJUNCTION_AND"
              /\ Len(c.children) = 2
              /\ PushableShape(c.children[1])
              /\ UnsupportedShape(c.children[2])
    /\ ~result.supported

\* Does the clause constrain exactly dimension d, to the single value str
\* (its selector for a key dimension, both period bounds for the time
\* dimension), and nothing else?
ConstrainsOnly(clause, d, str) ==
    /\ Len(ClauseSlots(clause)) = Cardinality(KeyDims)
    /\ \A k \in 1..Len(ClauseSlots(clause)) :
          ClauseSlots(clause)[k] = IF KeyDimAt(k) = d THEN <<str>> ELSE << >>
    /\ QueryParam(clause, "startPeriod=") = IF IsTime(d) THEN <<str>> ELSE << >>
    /\ QueryParam(clause, "endPeriod=") = IF IsTime(d) THEN <<str>> ELSE << >>

\* An equality `column = constant` on a key or time dimension, with a
\* non-NULL constant.
IsEquality(e) ==
    /\ e.cls = "BOUND_COMPARISON" /\ e.type = "COMPARE_EQUAL"
    /\ e.lcls = "BOUND_COLUMN_REF" /\ e.rcls = "BOUND_CONSTANT"
    /\ Projected(e.binding) /\ ~IsVirtual(DimOf(e.binding))
    /\ ~e.values[1].is_null

\* A disjunction of equalities on one dimension with pairwise distinct
\* constants.
IsOrOfEqualities(e) ==
    /\ e.cls = "BOUND_CONJUNCTION" /\ e.type = "CONJUNCTION_OR"
    /\ Len(e.children) >= 2
    /\ \A i \in 1..Len(e.children) :
          IsEquality(e.children[i]) /\ e.children[i].binding = e.children[1].binding
    /\ \A i, j \in 1..Len(e.children) :
          i /= j => e.children[i].values[1] /= e.children[j].values[1]

\* The same shape as a table filter.
IsOrOfEqualityFilters(f) ==
    /\ f.filter_type = "CONJUNCTION_OR"
    /\ Len(f.child_filters) >= 2
    /\ \A i \in 1..Len(f.child_filters) :
          /\ f.child_filters[i].filter_type = "CONSTANT_COMPARISON"
          /\ f.child_filters[i].comparison_type = "COMPARE_EQUAL"
          /\ ~f.child_filters[i].constant.is_null
    /\ \A i, j \in 1..Len(f.child_filters) :
          i /= j => f.child_filters[i].constant /= f.child_filters[j].constant

\* C4 -- OR fan-out: a disjunction of n equalities on one (key or time)
\* dimension with pairwise distinct constants compiles to supported = true
\* and exactly n pairwise distinct clauses, the i-th constraining the
\* dimension to the i-th constant only; no clause holds a '+'.
C4_OrFanOut ==
    /\ (pc = "pushed" /\ Len(in_expressions) = 1 /\ IsOrOfEqualities(in_expressions[1]))
       => LET disj == in_expressions[1]
          IN  /\ result.supported
              /\ Len(result.filters) = Len(disj.children)
              /\ \A i \in 1..Len(disj.children) :
                    /\ ConstrainsOnly(result.filters[i], DimOf(disj.children[i].binding),
                                      disj.children[i].values[1].str)
                    /\ "+" \notin Range(result.filters[i])
              /\ \A i, j \in 1..Len(result.filters) :
                    i /= j => result.filters[i] /= result.filters[j]
    /\ (pc = "encoded" /\ Len(table_filters.filters) = 1
        /\ EntryProjected(table_filters.filters[1])
        /\ EntryDim(table_filters.filters[1]) \in DimIndices
        /\ ~IsVirtual(EntryDim(table_filters.filters[1]))
        /\ IsOrOfEqualityFilters(table_filters.filters[1].second))
       => LET disj == table_filters.filters[1].second
          IN  /\ result.supported
              /\ Len(result.filters) = Len(disj.child_filters)
              /\ \A i \in 1..Len(disj.child_filters) :
                    /\ ConstrainsOnly(result.filters[i], EntryDim(table_filters.filters[1]),
                                      disj.child_filters[i].constant.str)
                    /\ "+" \notin Range(result.filters[i])

\* Witness of C4: a disjunction of three equalities on a key dimension was
\* compiled into three clauses.
C4_Witness ==
    /\ pc = "pushed"
    /\ Len(in_expressions) = 1
    /\ IsOrOfEqualities(in_expressions[1])
    /\ Len(in_expressions[1].children) = 3
    /\ DimOf(in_expressions[1].children[1].binding) \in KeyDims
    /\ Len(result.filters) = 3

\* An IN list on a key dimension (not time, not virtual) with non-NULL members.
IsKeyInList(e) ==
    /\ e.cls = "BOUND_OPERATOR" /\ e.type = "COMPARE_IN"
    /\ e.lcls = "BOUND_COLUMN_REF" /\ e.rcls = "BOUND_CONSTANT"
    /\ Projected(e.binding) /\ DimOf(e.binding) \in KeyDims
    /\ \A i \in 1..Len(e.values) : ~e.values[i].is_null

\* "v1+v2+...+vn" for the values in the order given.
PlusJoined(values) == Join([i \in 1..Len(values) |-> <<values[i].str>>], "+")

\* C5 -- IN on one dimension: `A IN (v1..vn)` on a key dimension compiles
\* to exactly one clause out of exactly one branch; its A-selector is the
\* values joined by '+' in the order given, every other selector is empty
\* and no period bound is set.
C5_InOneClause ==
    (pc = "pushed" /\ Len(in_expressions) = 1 /\ IsKeyInList(in_expressions[1]))
    => LET lst == in_expressions[1]
       IN  /\ result.supported
           /\ Len(result.filters) = 1
           /\ Len(filter_set.filters) = 1
           /\ Len(ClauseSlots(result.filters[1])) = Cardinality(KeyDims)
           /\ \A k \in 1..Len(ClauseSlots(result.filters[1])) :
                 ClauseSlots(result.filters[1])[k] =
                    IF KeyDimAt(k) = DimOf(lst.binding) THEN PlusJoined(lst.values) ELSE << >>
           /\ ClauseQuery(result.filters[1]) = << >>

\* Witness of C5: an IN list of MaxIn distinct values on a key dimension
\* was compiled.
C5_Witness ==
    /\ pc = "pushed"
    /\ Len(in_expressions) = 1
    /\ IsKeyInList(in_expressions[1])
    /\ Len(in_expressions[1].values) = MaxIn
    /\ in_expressions[1].values[1] /= in_expressions[1].values[2]
    /\ result.supported

\* A BETWEEN of a projected column with two non-NULL constant bounds.
IsConstantBetween(e) ==
    /\ e.cls = "BOUND_BETWEEN"
    /\ e.lcls = "BOUND_COLUMN_REF" /\ e.rcls = "BOUND_CONSTANT"
    /\ Projected(e.binding)
    /\ ~e.values[1].is_null /\ ~e.values[2].is_null

\* C6 -- Time-dimension BETWEEN: `time_period BETWEEN lo AND hi` compiles
\* to one clause whose query is `startPeriod=lo&endPeriod=hi&` (start
\* before end) with every selector empty; on any other dimension the same
\* BETWEEN compiles to supported = false and no clause.
C6_TimeBetween ==
    (pc = "pushed" /\ Len(in_expressions) = 1 /\ IsConstantBetween(in_expressions[1]))
    => LET b == in_expressions[1]
       IN  IF IsTime(DimOf(b.binding))
           THEN /\ result.supported
                /\ Len(result.filters) = 1
                /\ ClauseQuery(result.filters[1]) =
                      <<"startPeriod=", b.values[1].str, "&",
                        "endPeriod=", b.values[2].str, "&">>
                /\ Len(ClauseSlots(result.filters[1])) = Cardinality(KeyDims)
                /\ \A k \in 1..Len(ClauseSlots(result.filters[1])) :
                      ClauseSlots(result.filters[1])[k] = << >>
           ELSE ~result.supported /\ result.filters = << >> /\ complex_filters = << >>

\* Witness of C6: a BETWEEN on the time dimension with lo < hi was compiled.
C6_Witness ==
    /\ pc = "pushed"
    /\ Len(in_expressions) = 1
    /\ IsConstantBetween(in_expressions[1])
    /\ IsTime(DimOf(in_expressions[1].binding))
    /\ Ord(in_expressions[1].values[1].str) < Ord(in_expressions[1].values[2].str)
    /\ result.supported

\* C7 -- Predicate retention: after PushdownComplexFilter the caller's
\* list is unchanged when the result is unsupported and empty when it is
\* supported; the stored clauses are empty exactly when the predicate
\* stayed with the engine, so a predicate taken from the engine always has
\* stored clauses.
C7_PredicateRetention ==
    pc = "pushed" =>
        /\ ~result.supported => expressions = in_expressions
        /\ result.supported => expressions = << >>
        /\ (complex_filters = << >>) <=> (expressions = in_expressions)
        /\ (in_expressions /= << >> /\ expressions = << >>) => complex_filters /= << >>

\* Witness of C7: one predicate was taken from the engine with its clauses
\* stored (another one, see C3_Witness, stayed with the engine).
C7_Witness ==
    /\ pc = "pushed"
    /\ in_expressions /= << >>
    /\ expressions = << >>
    /\ complex_filters /= << >>

\* A branch is non-empty when a mask slot holds a selector or a period
\* bound is set.
NonEmptyBranch(f) ==
    \/ f.start_period /= << >>
    \/ f.end_period /= << >>
    \/ \E i \in 1..Len(f.dim_mask) : f.dim_mask[i] \notin {<< >>, VIRTUAL_DIMENSION_FLAG}

\* C8 -- Compiled-result invariant: after Encode and after
\* EncodeExpression, supported holds exactly when filters is non-empty; an
\* empty or absent predicate set gives supported = false; and the clauses
\* are those of the non-empty branches of the filter set, one each, in
\* order.
C8_CompiledResult ==
    pc \in {"pushed", "encoded"} =>
        /\ result.supported <=> result.filters /= << >>
        /\ (pc = "pushed" /\ in_expressions = << >>) => ~result.supported
        /\ (pc = "encoded" /\ (table_filters.is_null \/ table_filters.filters = << >>))
              => ~result.supported
        /\ result.supported =>
              LET kept == SelectSeq(filter_set.filters, NonEmptyBranch)
              IN  /\ Len(result.filters) = Len(kept)
                  /\ \A i \in 1..Len(kept) : result.filters[i] = GetFilterString(kept[i])

\* Witness of C8: a supported result whose filter set also holds an empty
\* branch, which gave no clause.
C8_Witness ==
    /\ pc \in {"pushed", "encoded"}
    /\ result.supported
    /\ Len(result.filters) < Len(filter_set.filters)

\* ====================================================================
\* The scan: ES_Read::Init (eurostat_data_functions.cpp)
\* ====================================================================
TAB == "\t"

NEWLINE == "\n"

\* The tokens a `while (std::getline(stream, token, delim))` loop yields:
\* the pieces between delimiters, without a trailing empty piece (the
\* stream fails once nothing is left after the last delimiter).
GetLineAll(s, delim) ==
    IF s = << >> THEN << >>
    ELSE LET pieces == Split(s, delim)
         IN  IF Last(pieces) = << >> THEN PopBack(pieces) ELSE pieces

\* StringUtil::Trim: strip whitespace at both ends.
RECURSIVE Trim(_)
Trim(s) ==
    IF s = << >> THEN s
    ELSE IF s[1] = " " THEN Trim(Tail(s))
    ELSE IF Last(s) = " " THEN Trim(PopBack(s))
    ELSE s

\* StringUtil::Lower on the names a header carries.
LowerLexeme(l) ==
    CASE l = "GEO" -> "geo"
      [] l = "A" -> "a"
      [] l = "B" -> "b"
      [] OTHER -> l

Lower(token) == [i \in 1..Len(token) |-> LowerLexeme(token[i])]

\* The characters of a lexeme (geo codes are looked at character-wise).
Chars(l) ==
    CASE l = "DE" -> <<"D", "E">>
      [] l = "DE1" -> <<"D", "E", "1">>
      [] l = "EU27" -> <<"E", "U", "2", "7">>
      [] l = "XK" -> <<"X", "K">>
      [] OTHER -> <<l>>

RECURSIVE CharsOf(_)
CharsOf(str) == IF str = << >> THEN << >> ELSE Chars(str[1]) \o CharsOf(Tail(str))

\* COUNTRY_CODES (the keys the modelled codes can hit).
COUNTRY_CODES == {<<"D", "E">>, <<"F", "R">>}

STARTS_WITH(str, prefix) ==
    /\ Len(prefix) <= Len(str)
    /\ SubSeq(str, 1, Len(prefix)) = prefix

\* A variant of the classifier that looks at the length first.
GetGeoLevelLengthFirst(geo_code) ==
    LET code == CharsOf(geo_code)
        known == Len(code) >= 2 /\ SubSeq(code, 1, 2) \in COUNTRY_CODES
        aggregate == \/ STARTS_WITH(code, <<"E", "U">>)
                     \/ STARTS_WITH(code, <<"E", "A">>)
                     \/ STARTS_WITH(code, <<"E", "F", "T", "A">>)
    IN  CASE Len(code) = 2 -> IF code \in COUNTRY_CODES THEN <<"country">> ELSE <<"unknown">>
          [] Len(code) = 3 -> IF known THEN <<"nuts1">> ELSE <<"unknown">>
          [] Len(code) = 4 -> IF known THEN <<"nuts2">> ELSE <<"unknown">>
          [] Len(code) = 5 -> IF known THEN <<"nuts3">> ELSE <<"unknown">>
          [] Len(code) = 7 -> IF known /\ code[3] = "_" THEN <<"city">> ELSE <<"unknown">>
          [] OTHER -> IF aggregate THEN <<"aggregate">> ELSE <<"unknown">>

\* Dimension::GetGeoLevelFromGeoCode
GetGeoLevelFromGeoCode(geo_code) ==
    LET code == CharsOf(geo_code)
        known == Len(code) >= 2 /\ SubSeq(code, 1, 2) \in COUNTRY_CODES
    IN  IF \/ STARTS_WITH(code, <<"E", "U">>)
           \/ STARTS_WITH(code, <<"E", "A">>)
           \/ STARTS_WITH(code, <<"E", "F", "T", "A">>)
        THEN <<"aggregate">>
        ELSE CASE Len(code) = 2 -> IF code \in COUNTRY_CODES THEN <<"country">> ELSE <<"unknown">>
               [] Len(code) = 3 -> IF known THEN <<"nuts1">> ELSE <<"unknown">>
               [] Len(code) = 4 -> IF known THEN <<"nuts2">> ELSE <<"unknown">>
               [] Len(code) = 5 -> IF known THEN <<"nuts3">> ELSE <<"unknown">>
               [] Len(code) = 7 -> IF known /\ code[3] = "_" THEN <<"city">> ELSE <<"unknown">>
               [] OTHER -> <<"unknown">>

\* TryCast::Operation(string_t, double): the numerals of the model.
NumericLexemes == {"5", "7"}

TryCastDouble(value_str) ==
    IF Len(value_str) = 1 /\ value_str[1] \in NumericLexemes
    THEN [ok |-> TRUE, value |-> CHOOSE n \in 0..9 : ToString(n) = value_str[1]]
    ELSE [ok |-> FALSE, value |-> 0]

\* ---------------------------------------------------------- header line
TIME_PERIOD_TOKEN == "\\TIME_PERIOD"

\* line.find("\\TIME_PERIOD"): the 1-based place of the token, 0 for npos.
FindToken(line) ==
    IF \E i \in 1..Len(line) : line[i] = TIME_PERIOD_TOKEN
    THEN CHOOSE i \in 1..Len(line) :
            /\ line[i] = TIME_PERIOD_TOKEN
            /\ \A j \in 1..(i - 1) : line[j] /= TIME_PERIOD_TOKEN
    ELSE 0

\* The loop over the dimension names: the index of the first "geo".
RECURSIVE FindGeoColumn(_, _)
FindGeoColumn(tokens, token_index) ==
    IF token_index >= Len(tokens) THEN -1
    ELSE IF Lower(tokens[token_index + 1]) = <<"geo">> THEN token_index
    ELSE FindGeoColumn(tokens, token_index + 1)

\* The loop over the period names: trimmed, empty ones dropped.
RECURSIVE HeaderPeriods(_, _)
HeaderPeriods(tokens, i) ==
    IF i > Len(tokens) THEN << >>
    ELSE LET token == Trim(tokens[i])
         IN  (IF token /= << >> THEN <<token>> ELSE << >>)
                \o HeaderPeriods(tokens, i + 1)

\* The header branch of the parsing loop.  thrown is "" or the exception:
\* the IOException of the missing token, or the std::out_of_range of
\* line.substr when the line ends with the token (substr skips the token
\* and one more character).
ParseHeader(line) ==
    LET pos == FindToken(line)
    IN  IF pos = 0
        THEN [thrown |-> "IOException", time_periods |-> << >>,
              geo_column_index |-> -1]
        ELSE
        LET geo == FindGeoColumn(GetLineAll(SubSeq(line, 1, pos - 1), ","), 0)
        IN  IF pos + 1 > Len(line)
            THEN [thrown |-> "out_of_range", time_periods |-> << >>,
                  geo_column_index |-> geo]
            ELSE [thrown |-> "",
                  time_periods |->
                      HeaderPeriods(GetLineAll(SubSeq(line, pos + 2, Len(line)), TAB), 1),
                  geo_column_index |-> geo]

\* ------------------------------------------------------------ data line
\* What the build can produce for operator[] past the end of a
\* std::vector<std::string> (undefined behaviour): the process dies, or
\* the read yields whatever string the memory holds.
GarbageStrings == {<< >>, <<"7">>}

OutOfRangeRead ==
    {[crashed |-> TRUE, str |-> << >>]}
        \cup {[crashed |-> FALSE, str |-> g] : g \in GarbageStrings}

\* v[index] on a std::vector<std::string>, index 0-based.
VectorRead(v, index) ==
    IF index < Len(v) THEN {[crashed |-> FALSE, str |-> v[index + 1]]}
    ELSE OutOfRangeRead

\* tokens[0] + "|" + time_period
RowKey(token0, time_period) == token0 \o <<"|">> \o time_period

\* A variant of the key registration that registers nothing.
EmplaceNoKey(keys, row_key) == keys

\* row_keys.emplace(row_key, true)
EmplaceKey(keys, row_key) == keys \cup {row_key}

\* A variant of the key check that takes every key for new.
RECURSIVE CheckKeysNoneSeen(_, _, _, _)
CheckKeysNoneSeen(periods, i, token0, acc) ==
    IF i > Len(periods) THEN acc
    ELSE CheckKeysNoneSeen(periods, i + 1, token0,
            [row_keys |-> EmplaceKey(acc.row_keys, RowKey(token0, periods[i])),
             state_keys |-> Append(acc.state_keys, FALSE),
             all_are_duplicated |-> FALSE])

\* The loop of the key check: [row_keys, state_keys, all_are_duplicated].
RECURSIVE CheckKeys(_, _, _, _)
CheckKeys(periods, i, token0, acc) ==
    IF i > Len(periods) THEN acc
    ELSE
    LET row_key == RowKey(token0, periods[i])
    IN  IF row_key \in acc.row_keys
        THEN CheckKeys(periods, i + 1, token0,
                       [acc EXCEPT !.state_keys = Append(@, TRUE)])
        ELSE CheckKeys(periods, i + 1, token0,
                       [row_keys |-> EmplaceKey(acc.row_keys, row_key),
                        state_keys |-> Append(acc.state_keys, FALSE),
                        all_are_duplicated |-> FALSE])

Datarow(dimension_index, time_period, observation_value) ==
    [dimension_index |-> dimension_index, time_period |-> time_period,
     observation_value |-> observation_value]

\* The loop over the time periods, from period i (0-based) on: the set of
\* [crashed, rows] the build can produce.
RECURSIVE ParseObservations(_, _, _, _, _, _, _)
ParseObservations(tokens, periods, i, state_keys, chk, dimension_index, rs) ==
    IF i >= Len(periods) THEN {[crashed |-> FALSE, rows |-> rs]}
    ELSE IF chk /\ state_keys[i + 1]
    THEN ParseObservations(tokens, periods, i + 1, state_keys, chk,
                           dimension_index, rs)
    ELSE
    UNION {
        IF rd.crashed THEN {[crashed |-> TRUE, rows |-> rs]}
        ELSE
        LET value_str == Trim(rd.str)
            cast == TryCastDouble(value_str)
            stored == IF value_str /= << >> /\ value_str /= <<":">> /\ cast.ok
                      THEN Append(rs, Datarow(dimension_index, periods[i + 1],
                                              cast.value))
                      ELSE rs
        IN  ParseObservations(tokens, periods, i + 1, state_keys, chk,
                              dimension_index, stored)
        : rd \in VectorRead(tokens, i + 1)}

\* ES_Read::ParseDatarow: the set of [returned, crashed, dimensions, rows,
\* row_keys] the build can produce for one line.
ParseDatarow(dims, rs, periods, geo_index, line, keys, chk) ==
    LET tokens == GetLineAll(line, TAB)
        same == [returned |-> TRUE, crashed |-> FALSE, dimensions |-> dims,
                 rows |-> rs, row_keys |-> keys]
    IN  IF tokens = << >> THEN {[same EXCEPT !.returned = FALSE]}
        ELSE
        LET checked ==
                IF chk
                THEN CheckKeys(periods, 1, tokens[1],
                               [row_keys |-> keys, state_keys |-> << >>,
                                all_are_duplicated |-> TRUE])
                ELSE [row_keys |-> keys, state_keys |-> << >>,
                      all_are_duplicated |-> FALSE]
        IN  IF chk /\ checked.all_are_duplicated
            THEN {[same EXCEPT !.row_keys = checked.row_keys]}
            ELSE
            LET values == GetLineAll(tokens[1], ",")
                geo_reads == IF geo_index /= -1
                             THEN VectorRead(values, geo_index)
                             ELSE {[crashed |-> FALSE, str |-> << >>]}
            IN  UNION {
                IF g.crashed
                THEN {[same EXCEPT !.crashed = TRUE,
                                   !.row_keys = checked.row_keys]}
                ELSE
                LET dim_values ==
                        IF geo_index /= -1
                        THEN Append(values, GetGeoLevelFromGeoCode(g.str))
                        ELSE values
                    new_dims == Append(dims, [values |-> dim_values])
                IN  {[returned |-> TRUE, crashed |-> o.crashed,
                      dimensions |-> new_dims, rows |-> o.rows,
                      row_keys |-> checked.row_keys]
                     : o \in ParseObservations(tokens, periods, 0,
                                               checked.state_keys, chk,
                                               Len(new_dims) - 1, rs)}
                : g \in geo_reads}

\* ------------------------------------------------------- scan inputs
\* HttpResponse of HttpRequest::ExecuteHttpRequest.
HttpResponse(content_type, status_code, error, body) ==
    [content_type |-> content_type, status_code |-> status_code,
     error |-> error, body |-> body]

\* Header lines: `A,B\TIME_PERIOD<TAB>2020<TAB>2021` and, with a geo
\* column and padded periods, `freq,GEO\TIME_PERIOD<TAB>2020 <TAB>2021 `.
Headers ==
    {<<"A", ",", "B", TIME_PERIOD_TOKEN, TAB, "2020", TAB, "2021">>,
     <<"freq", ",", "GEO", TIME_PERIOD_TOKEN, TAB, "2020", " ", TAB, "2021", " ">>}

\* Data lines: `x,y<TAB>5<TAB>:`, `x,y<TAB>5<TAB>` (the last observation
\* missing, rendered as an empty field), `A,DE<TAB> 7 <TAB>5 p` (padding
\* and a flagged value) and `x,y<TAB><TAB>7` (the first observation
\* missing, for a key another line has too).
DataLines ==
    {<<"x", ",", "y", TAB, "5", TAB, ":">>,
     <<"x", ",", "y", TAB, "5", TAB>>,
     <<"A", ",", "DE", TAB, " ", "7", " ", TAB, "5", " ", "p">>,
     <<"x", ",", "y", TAB, TAB, "7">>}

\* A payload: the header and the data lines, one per line.
Body(header, lines) == Join(<<header>> \o lines, NEWLINE)

\* Payloads without a usable header and payloads with an empty line.
OddBodies ==
    {<< >>,
     <<"A", ",", "B">>,
     <<"A", ",", "B", TIME_PERIOD_TOKEN>>,
     <<NEWLINE>> \o Body(CHOOSE h \in Headers : h[1] = "A", << >>)}

TSV == "text/tab-separated-values"

\* The responses the remote service can give whose payloads hold at most
\* n data lines.
Responses(n) ==
    {HttpResponse("application/xml", 400, "", <<"<error/>">>),
     HttpResponse("application/xml", 200, "", <<"<error/>">>),
     HttpResponse(TSV, 404, "", << >>),
     HttpResponse("", 0, "HTTP request failed", << >>),
     HttpResponse(TSV, 200, "Connection error", << >>)}
    \cup {HttpResponse(TSV, 200, "", b) : b \in OddBodies}
    \cup {HttpResponse(TSV, 200, "", Body(h, ls)) :
            h \in Headers, ls \in SeqsOf(DataLines, 0, n)}

\* The lines std::getline(line_stream, line) yields for a body.
BodyLines(body) == GetLineAll(body, NEWLINE)

\* Data lines of a body: its non-empty lines but the first.
DataLineCount(body) ==
    LET n == Len(SelectSeq(BodyLines(body), LAMBDA l : l /= << >>))
    IN  IF n = 0 THEN 0 ELSE n - 1

RECURSIVE LinesReceived(_)
LinesReceived(rs) ==
    IF rs = << >> THEN 0
    ELSE DataLineCount(rs[1].body) + LinesReceived(Tail(rs))

\* ------------------------------------------------------- scan actions
\* The state at the start of the URL loop of ES_Read::Init: GetDataUrls
\* has produced url_total URLs.
InitScan ==
    /\ pc = "scan"
    /\ data_structure = << >>
    /\ column_ids = << >>
    /\ in_expressions = << >>
    /\ expressions = << >>
    /\ table_filters = NullFilterSet
    /\ result = EmptyResult
    /\ filter_set = EurostatFilterSet(<< >>)
    /\ complex_filters = << >>
    /\ scan_pc = "fetch"
    /\ url_total \in 1..MaxUrls
    /\ data_urls = [i \in 1..url_total |->
                       base_url \o <<"/", ToString(i), "?">> \o FORMAT_PARAMETERS]
    /\ exception = NoException
    /\ responses = << >>
    /\ url_count = 0
    /\ line_pos = 0
    /\ line_index = 0
    /\ time_periods = << >>
    /\ geo_column_index = -1
    /\ row_keys = {}
    /\ check_keys = (url_total > 1)
    /\ dimensions = << >>
    /\ rows = << >>
    /\ GeoIdle
    /\ ExecIdle

\* IOException(msg, ...) with the arguments formatted in.
IOException(what) == [type |-> "IOException", what |-> what]

\* A variant of the checks that tests the status before the content type.
CheckResponseStatusFirst(response) ==
    IF response.status_code /= 200
    THEN [next |-> "failed", clear_rows |-> FALSE,
          exception |-> IOException(
              <<"EUROSTAT: Failed to fetch a dataset from provider='",
                provider_id, "', dataflow='", dataflow_id, "': (",
                ToString(response.status_code), ") ", response.error>>)]
    ELSE IF response.content_type = "application/xml"
    THEN [next |-> "done", clear_rows |-> TRUE, exception |-> NoException]
    ELSE IF response.error /= ""
    THEN [next |-> "failed", clear_rows |-> FALSE,
          exception |-> IOException(<<"EUROSTAT: ", response.error>>)]
    ELSE [next |-> "parse", clear_rows |-> FALSE, exception |-> NoException]

\* A variant of the checks that lets a transport error string pass.
CheckResponseIgnoringError(response) ==
    IF response.content_type = "application/xml"
    THEN [next |-> "done", clear_rows |-> TRUE, exception |-> NoException]
    ELSE IF response.status_code /= 200
    THEN [next |-> "failed", clear_rows |-> FALSE,
          exception |-> IOException(
              <<"EUROSTAT: Failed to fetch a dataset from provider='",
                provider_id, "', dataflow='", dataflow_id, "': (",
                ToString(response.status_code), ") ", response.error>>)]
    ELSE [next |-> "parse", clear_rows |-> FALSE, exception |-> NoException]

\* The checks of a response before its body is parsed: where Init goes
\* next, whether the row store is cleared, and the exception thrown.
CheckResponse(response) ==
    IF response.content_type = "application/xml"
    THEN [next |-> "done", clear_rows |-> TRUE, exception |-> NoException]
    ELSE IF response.status_code /= 200
    THEN [next |-> "failed", clear_rows |-> FALSE,
          exception |-> IOException(
              <<"EUROSTAT: Failed to fetch a dataset from provider='",
                provider_id, "', dataflow='", dataflow_id, "': (",
                ToString(response.status_code), ") ", response.error>>)]
    ELSE IF response.error /= ""
    THEN [next |-> "failed", clear_rows |-> FALSE,
          exception |-> IOException(<<"EUROSTAT: ", response.error>>)]
    ELSE [next |-> "parse", clear_rows |-> FALSE, exception |-> NoException]

\* One iteration of the URL loop up to the parsing loop: the request and
\* the checks of the response.
Fetch ==
    /\ scan_pc = "fetch"
    /\ url_count < url_total
    /\ \E response \in Responses(MaxLines - LinesReceived(responses)) :
          LET c == CheckResponse(response)
          IN  /\ responses' = Append(responses, response)
              /\ url_count' = url_count + 1
              /\ rows' = IF c.clear_rows THEN << >> ELSE rows
              /\ scan_pc' = c.next
              /\ exception' = c.exception
    /\ line_pos' = 0
    /\ line_index' = 0
    /\ time_periods' = << >>
    /\ geo_column_index' = -1
    /\ UNCHANGED <<url_total, data_urls, row_keys, check_keys, dimensions>>
    /\ UNCHANGED <<encVars, geoVars, execVars>>

\* One iteration of the parsing loop: an empty line is passed over, the
\* first non-empty line is the header, every other line is a data row.
ParseLine ==
    /\ scan_pc = "parse"
    /\ line_pos < Len(BodyLines(responses[url_count].body))
    /\ line_pos' = line_pos + 1
    /\ LET line == BodyLines(responses[url_count].body)[line_pos + 1]
       IN  IF line = << >>
           THEN UNCHANGED <<scan_pc, exception, line_index, time_periods,
                            geo_column_index, row_keys, dimensions, rows>>
           ELSE IF line_index = 0
           THEN LET h == ParseHeader(line)
                IN  /\ scan_pc' = IF h.thrown /= "" THEN "failed" ELSE "parse"
                    /\ exception' =
                          IF h.thrown = "IOException"
                          THEN IOException(
                                  <<"EUROSTAT: TIME_PERIOD not found in TSV header.">>)
                          ELSE IF h.thrown = "out_of_range"
                          THEN [type |-> "std::out_of_range",
                                what |-> <<"basic_string::substr">>]
                          ELSE NoException
                    /\ time_periods' = h.time_periods
                    /\ geo_column_index' = h.geo_column_index
                    /\ line_index' = line_index + 1
                    /\ UNCHANGED <<row_keys, dimensions, rows>>
           ELSE \E o \in ParseDatarow(dimensions, rows, time_periods,
                                      geo_column_index, line, row_keys,
                                      check_keys) :
                    /\ scan_pc' = IF o.crashed THEN "crashed" ELSE "parse"
                    /\ dimensions' = o.dimensions
                    /\ rows' = o.rows
                    /\ row_keys' = o.row_keys
                    /\ line_index' = line_index + 1
                    /\ UNCHANGED <<exception, time_periods, geo_column_index>>
    /\ UNCHANGED <<url_total, data_urls, responses, url_count, check_keys>>
    /\ UNCHANGED <<encVars, geoVars, execVars>>

\* The parsing loop ends with the body; the URL loop goes on.
EndOfBody ==
    /\ scan_pc = "parse"
    /\ line_pos = Len(BodyLines(responses[url_count].body))
    /\ scan_pc' = "fetch"
    /\ UNCHANGED <<url_total, data_urls, exception, responses, url_count,
                   line_pos, line_index,
                   time_periods, geo_column_index, row_keys, check_keys,
                   dimensions, rows>>
    /\ UNCHANGED <<encVars, geoVars, execVars>>

\* The URL loop ends and Init returns the global state.
ReturnState ==
    /\ scan_pc = "fetch"
    /\ url_count = url_total
    /\ scan_pc' = "done"
    /\ UNCHANGED <<url_total, data_urls, exception, responses, url_count,
                   line_pos, line_index,
                   time_periods, geo_column_index, row_keys, check_keys,
                   dimensions, rows>>
    /\ UNCHANGED <<encVars, geoVars, execVars>>

NextScan == Fetch \/ ParseLine \/ EndOfBody \/ ReturnState

SpecScan == InitScan /\ [][NextScan]_vars

\* --------------------------------------------------------------------
\* C9  Dedup idempotence.  With deduplication enabled, while the scan
\* parses a payload that an earlier URL of the same scan has already
\* delivered, no step of the parser adds an Observation row or a
\* Dimension Values row: the row store stays what the first pass made it.
\* --------------------------------------------------------------------
SamePayloadAgain ==
    /\ scan_pc = "parse"
    /\ check_keys
    /\ \E j \in 1..(url_count - 1) :
          responses[j].body = responses[url_count].body

C9_DedupIdempotence ==
    [][SamePayloadAgain => (rows' = rows /\ dimensions' = dimensions)]_vars

\* Both passes of a payload with a data line that produced a row are over.
C9_Witness ==
    /\ scan_pc = "done"
    /\ url_count = 2
    /\ responses[1].body = responses[2].body
    /\ responses[2].content_type = TSV
    /\ DataLineCount(responses[2].body) > 0
    /\ Len(rows) > 0

\* --------------------------------------------------------------------
\* C10  Data-line parsing.  Every data line parsed without deduplication
\* creates exactly one Dimension Values row that holds the comma-split
\* key values in order, and exactly one Observation row for each
\* time-period field that, trimmed, is non-empty, is not ":" and is a
\* number, with the header period of the same ordinal position and the
\* index of the line's Dimension Values row; a missing or unparsable
\* field creates no row and the scan goes on.
\* --------------------------------------------------------------------
\* The fields of a data line as the wire format defines them.
LineFields(line) == Split(line, TAB)

RECURSIVE ExpectedRows(_, _, _, _)
ExpectedRows(fields, periods, i, dimension_index) ==
    IF i > Len(periods) THEN << >>
    ELSE
    LET field == IF i + 1 <= Len(fields) THEN Trim(fields[i + 1]) ELSE << >>
        is_number == Len(field) = 1 /\ field[1] \in NumericLexemes
    IN  (IF field /= << >> /\ field /= <<":">> /\ is_number
         THEN <<Datarow(dimension_index, periods[i],
                        CHOOSE n \in 0..9 : ToString(n) = field[1])>>
         ELSE << >>)
            \o ExpectedRows(fields, periods, i + 1, dimension_index)

\* The scan is about to parse a data line without deduplication.
AtDataLine ==
    /\ scan_pc = "parse"
    /\ ~check_keys
    /\ line_index > 0
    /\ line_pos < Len(BodyLines(responses[url_count].body))
    /\ BodyLines(responses[url_count].body)[line_pos + 1] /= << >>

C10_DataLineParsing ==
    [][AtDataLine =>
        LET line == BodyLines(responses[url_count].body)[line_pos + 1]
            fields == LineFields(line)
            key_values == Split(fields[1], ",")
        IN  /\ scan_pc' = "parse"
            /\ Len(dimensions') = Len(dimensions) + 1
            /\ SubSeq(dimensions', 1, Len(dimensions)) = dimensions
            /\ Len(Last(dimensions').values) >= Len(key_values)
            /\ SubSeq(Last(dimensions').values, 1, Len(key_values)) = key_values
            /\ rows' = rows \o ExpectedRows(fields, time_periods, 1,
                                            Len(dimensions))]_vars

\* --------------------------------------------------------------------
\* C11  URL fan-out.  The URLs of a scan are exactly base + clause +
\* "format=TSV&compressed=true" for the non-empty compiled clauses, each
\* once however often its clause was compiled; without any clause the one
\* URL is the unbounded request; the list is never empty.
\* --------------------------------------------------------------------
ClauseUrls ==
    {base_url \o c \o FORMAT_PARAMETERS :
        c \in {result.filters[i] : i \in 1..Len(result.filters)} \ {<< >>}}

C11_UrlFanOut ==
    scan_pc = "fetch" /\ pc = "pushed" =>
        /\ Len(data_urls) >= 1
        /\ \A i, j \in 1..Len(data_urls) : i /= j => data_urls[i] /= data_urls[j]
        /\ Range(data_urls) =
              IF ClauseUrls /= {} THEN ClauseUrls
              ELSE {base_url \o <<"?">> \o FORMAT_PARAMETERS}

\* The same clause was compiled twice and another one once.
C11_Witness ==
    /\ scan_pc = "fetch"
    /\ pc = "pushed"
    /\ \E i, j \in 1..Len(result.filters) :
          i /= j /\ result.filters[i] = result.filters[j]
    /\ Len(data_urls) = 2

\* --------------------------------------------------------------------
\* C12  Structured error document.  Once a response with the content type
\* "application/xml" has arrived, Init has returned without an exception,
\* that response is the last one requested, and the row store is empty
\* whatever earlier URLs of the scan had put into it.
\* --------------------------------------------------------------------
IsErrorDocument(response) == response.content_type = "application/xml"

IsFetchFailure(response) ==
    response.status_code /= 200 \/ response.error /= ""

\* Init threw while checking a response (before any line of it was read).
FetchErrorThrown ==
    /\ scan_pc = "failed"
    /\ exception.type = "IOException"
    /\ line_pos = 0

C13_FetchFailureFatal ==
    \A k \in 1..Len(responses) :
        IsFetchFailure(responses[k]) =>
            /\ FetchErrorThrown
            /\ k = Len(responses)
            /\ url_count = k

\* C13 as amended: the same for every response that is not an error
\* document (the content type is looked at first).
C13_FetchFailureFatalAmended ==
    \A k \in 1..Len(responses) :
        IsFetchFailure(responses[k]) /\ ~IsErrorDocument(responses[k]) =>
            /\ FetchErrorThrown
            /\ k = Len(responses)
            /\ url_count = k

\* A transport error string came with status 200 for the second URL,
\* after the first had delivered rows.
C13_Witness ==
    /\ Len(responses) = 2
    /\ responses[2].status_code = 200
    /\ responses[2].error /= ""
    /\ Len(rows) > 0
    /\ FetchErrorThrown

\* --------------------------------------------------------------------
\* C14  Fetch-error content.  Every fetch error Init throws names the
\* dataflow and carries the upstream status code or error string.
\* --------------------------------------------------------------------
C14_FetchErrorContent ==
    FetchErrorThrown =>
        /\ dataflow_id \in Range(exception.what)
        /\ \/ ToString(Last(responses).status_code) \in Range(exception.what)
           \/ /\ Last(responses).error /= ""
              /\ Last(responses).error \in Range(exception.what)

\* --------------------------------------------------------------------
\* C15  Malformed payload.  When the first non-empty line of a payload
\* has no "\TIME_PERIOD", Init throws a parse error that names the
\* dataflow and the row store keeps its rows; when that line ends with
\* the token, the scan goes on without any failure.
\* --------------------------------------------------------------------
AtHeaderLine ==
    /\ scan_pc = "parse"
    /\ line_index = 0
    /\ line_pos < Len(BodyLines(responses[url_count].body))
    /\ BodyLines(responses[url_count].body)[line_pos + 1] /= << >>

C15_MalformedPayload ==
    [][AtHeaderLine =>
        LET line == BodyLines(responses[url_count].body)[line_pos + 1]
        IN  /\ TIME_PERIOD_TOKEN \notin Range(line) =>
                /\ scan_pc' = "failed"
                /\ exception'.type = "IOException"
                /\ dataflow_id \in Range(exception'.what)
                /\ rows' = rows
            /\ (line /= << >> /\ Last(line) = TIME_PERIOD_TOKEN) =>
                /\ scan_pc' = "parse"
                /\ exception' = NoException]_vars

\* ====================================================================
\* The scalar function EUROSTAT_GetGeoLevelFromGeoCode
\* ====================================================================
\* Longest tail of a geo code after its first letters.
MaxSuffix == 5

\* Geo codes, character by character: the first letters of country codes
\* the table knows (DE, FR) and does not know (XK, ZZ), of the aggregates
\* (EU, EA, EFTA) and of their beginnings, then digits and underscores.
GeoCodes ==
    {prefix \o suffix :
        prefix \in {<< >>, <<"D">>, <<"D", "E">>, <<"F", "R">>, <<"X", "K">>,
                    <<"Z", "Z">>, <<"E">>, <<"E", "U">>, <<"E", "A">>,
                    <<"E", "F">>, <<"E", "F", "T", "A">>},
        suffix \in SeqsOf({"1", "2", "_"}, 0, MaxSuffix)}

\* No bind and no scan: only the scalar function is called.
EncIdle ==
    /\ data_structure = << >>
    /\ column_ids = << >>
    /\ in_expressions = << >>
    /\ expressions = << >>
    /\ table_filters = NullFilterSet
    /\ result = EmptyResult
    /\ filter_set = EurostatFilterSet(<< >>)
    /\ complex_filters = << >>

InitGeo ==
    /\ pc = "scalar"
    /\ EncIdle
    /\ ScanIdle
    /\ ExecIdle
    /\ geo_code_str \in GeoCodes
    /\ geo_level_str = << >>

\* ES_GeoLevel::GetGeoLevelFromGeoCode on one value of the argument vector.
ES_GeoLevel ==
    /\ geo_level_str = << >>
    /\ geo_level_str' = GetGeoLevelFromGeoCode(geo_code_str)
    /\ UNCHANGED <<encVars, scanVars, execVars, geo_code_str>>

NextGeo == ES_GeoLevel

SpecGeo == InitGeo /\ [][NextGeo]_vars

\* --------------------------------------------------------------------
\* C16  Geo-level classifier.  The result for every code is the value of
\* the decision table: aggregate for a code that begins with EU, EA or
\* EFTA; else country for a known code of length 2, nuts1, nuts2, nuts3
\* for length 3, 4, 5 behind a known country code, city for length 7
\* behind a known country code with "_" as third character; unknown in
\* every other case.  So DE is a country, DE1 nuts1, DE12 nuts2, DE123
\* nuts3, DE_1212 a city, and the result is one of the seven levels.
\* --------------------------------------------------------------------
GeoLevels ==
    {<<"aggregate">>, <<"country">>, <<"nuts1">>, <<"nuts2">>, <<"nuts3">>,
     <<"city">>, <<"unknown">>}

BeginsWith(code, letters) ==
    /\ Len(code) >= Len(letters)
    /\ \A i \in 1..Len(letters) : code[i] = letters[i]

KnownCountry(code) ==
    Len(code) >= 2 /\ <<code[1], code[2]>> \in COUNTRY_CODES

DecisionTable(code) ==
    IF \E a \in {<<"E", "U">>, <<"E", "A">>, <<"E", "F", "T", "A">>} :
          BeginsWith(code, a)
    THEN <<"aggregate">>
    ELSE IF Len(code) = 2 /\ KnownCountry(code) THEN <<"country">>
    ELSE IF Len(code) \in 3..5 /\ KnownCountry(code)
    THEN <<"nuts" \o ToString(Len(code) - 2)>>
    ELSE IF Len(code) = 7 /\ KnownCountry(code) /\ code[3] = "_"
    THEN <<"city">>
    ELSE <<"unknown">>

C16_GeoClassifier ==
    geo_level_str /= << >> =>
        /\ geo_level_str = DecisionTable(geo_code_str)
        /\ geo_level_str \in GeoLevels
        /\ \A c \in COUNTRY_CODES :
              /\ geo_code_str = c => geo_level_str = <<"country">>
              /\ geo_code_str = c \o <<"1">> => geo_level_str = <<"nuts1">>
              /\ geo_code_str = c \o <<"1", "2">> => geo_level_str = <<"nuts2">>
              /\ geo_code_str = c \o <<"1", "2", "1">> => geo_level_str = <<"nuts3">>
              /\ geo_code_str = c \o <<"_", "1", "2", "1", "2">> =>
                    geo_level_str = <<"city">>

\* A city code has been classified.
C16_Witness ==
    /\ geo_code_str = <<"D", "E", "_", "1", "2", "1", "2">>
    /\ geo_level_str = <<"city">>

\* ====================================================================
\* The row assembler: ES_Read::Execute
\* ====================================================================
\* STANDARD_VECTOR_SIZE (2048 in the engine), scaled down.
STANDARD_VECTOR_SIZE == 2

Min(a, b) == IF a < b THEN a ELSE b

\* Value(string) and Value(double) as SetValue stores them.
VarcharValue(str) == [type |-> "VARCHAR", value |-> str]

DoubleValue(d) == [type |-> "DOUBLE", value |-> d]

\* The reads of a column: the value of each read the build can produce.
ValuesRead(reads) ==
    {[crashed |-> rd.crashed, str |-> VarcharValue(rd.str)] : rd \in reads}

\* A variant of the column choice with time period and value swapped.
ReadCellSwapped(datarow, dim_values, dim_index) ==
    LET dim_count == Len(dim_values.values)
    IN  IF dim_index = dim_count
        THEN {[crashed |-> FALSE, str |-> DoubleValue(datarow.observation_value)]}
        ELSE IF dim_index = dim_count + 1
        THEN {[crashed |-> FALSE, str |-> VarcharValue(datarow.time_period)]}
        ELSE ValuesRead(VectorRead(dim_values.values, dim_index))

\* The value Execute stores for one column of one row: the reads the
\* build can produce ([crashed, str], str being the value).
ReadCell(datarow, dim_values, dim_index) ==
    LET dim_count == Len(dim_values.values)
    IN  IF dim_index = dim_count
        THEN {[crashed |-> FALSE, str |-> VarcharValue(datarow.time_period)]}
        ELSE IF dim_index = dim_count + 1
        THEN {[crashed |-> FALSE, str |-> DoubleValue(datarow.observation_value)]}
        ELSE ValuesRead(VectorRead(dim_values.values, dim_index))

\* The loop over column_ids for one row, from column col_idx (0-based)
\* on: the set of [crashed, cells].
RECURSIVE OutputRow(_, _, _, _, _)
OutputRow(datarow, dim_values, cids, col_idx, cells) ==
    IF col_idx >= Len(cids) THEN {[crashed |-> FALSE, cells |-> cells]}
    ELSE UNION {
        IF rd.crashed THEN {[crashed |-> TRUE, cells |-> cells]}
        ELSE OutputRow(datarow, dim_values, cids, col_idx + 1,
                       Append(cells, rd.str))
        : rd \in ReadCell(datarow, dim_values, cids[col_idx + 1])}

\* The loop over the rows of one batch, from row row_idx (0-based) on:
\* the set of [crashed, chunk].
RECURSIVE OutputChunk(_, _, _, _, _, _, _)
OutputChunk(rs, dims, cids, first_row, row_idx, output_size, chunk) ==
    IF row_idx >= output_size THEN {[crashed |-> FALSE, chunk |-> chunk]}
    ELSE
    LET datarow == rs[first_row + row_idx + 1]
        dim_values == dims[datarow.dimension_index + 1]
    IN  UNION {
        IF o.crashed THEN {[crashed |-> TRUE, chunk |-> chunk]}
        ELSE OutputChunk(rs, dims, cids, first_row, row_idx + 1, output_size,
                         Append(chunk, o.cells))
        : o \in OutputRow(datarow, dim_values, cids, 0, << >>)}

\* A variant of the cursor update that always advances by a full page.
NextRowByPage(cursor, output_size) == cursor + STANDARD_VECTOR_SIZE

\* gstate.current_row += output_size
NextRow(cursor, output_size) == cursor + output_size

\* ES_Read::Execute: one batch of the row store into the output chunk.
Execute ==
    /\ scan_pc = "done"
    /\ LET output_size == Min(STANDARD_VECTOR_SIZE, Len(rows) - current_row)
       IN  IF output_size = 0
           THEN /\ output' = << >>
                /\ UNCHANGED <<current_row, emitted, scan_pc>>
           ELSE \E o \in OutputChunk(rows, dimensions, column_ids, current_row,
                                     0, output_size, << >>) :
                    IF o.crashed
                    THEN /\ scan_pc' = "crashed"
                         /\ UNCHANGED <<current_row, output, emitted>>
                    ELSE /\ output' = o.chunk
                         /\ emitted' = emitted \o o.chunk
                         /\ current_row' = NextRow(current_row, output_size)
                         /\ scan_pc' = scan_pc
    /\ UNCHANGED <<pc, data_structure, column_ids, in_expressions, expressions,
                   table_filters, result, filter_set, complex_filters>>
    /\ UNCHANGED <<url_total, data_urls, exception, responses, url_count,
                   line_pos, line_index, time_periods, geo_column_index,
                   row_keys, check_keys, dimensions, rows>>
    /\ UNCHANGED geoVars

\* ------------------------------------------------------- exec inputs
\* Key lists of datasets: without geo, and with geo first, in the middle
\* and last.
KeyLists ==
    {<<"freq", "unit">>, <<"geo", "unit">>, <<"freq", "geo", "unit">>,
     <<"freq", "geo">>}

\* The loops of GetBasicDataSchema over the dimensions of the data
\* structure definition (ids in position order) and its time dimension:
\* geo_level with position -1 goes right behind geo.
RECURSIVE SchemaDimensions(_, _)
SchemaDimensions(ids, i) ==
    IF i > Len(ids) THEN << >>
    ELSE <<Dimension(i, LowerLexeme(ids[i]))>>
            \o (IF LowerLexeme(ids[i]) = "geo"
                THEN <<Dimension(-1, "geo_level")>> ELSE << >>)
            \o SchemaDimensions(ids, i + 1)

GetBasicDataSchema(ids) ==
    SchemaDimensions(ids, 1)
        \o <<Dimension(Len(ids) + 1, TIME_PERIOD_DIMENSION_NAME)>>

\* The wire value of a dimension in the modelled data lines.
WireValue(id, geo) ==
    CASE id = "freq" -> "A"
      [] id = "unit" -> "NR"
      [] id = "geo" -> geo

\* The header of a payload with these keys and the periods 2020, 2021.
HeaderOf(keys) ==
    Join([i \in 1..Len(keys) |-> <<keys[i]>>], ",")
        \o <<TIME_PERIOD_TOKEN, TAB, "2020", TAB, "2021">>

\* Its data lines: one with a single observation, one with two.
DataLinesOf(keys) ==
    {Join([i \in 1..Len(keys) |-> <<WireValue(keys[i], "DE")>>], ",")
        \o <<TAB, "5", TAB, ":">>,
     Join([i \in 1..Len(keys) |-> <<WireValue(keys[i], "DE1")>>], ",")
        \o <<TAB, "7", TAB, "5">>}

\* Requested columns: any indices of the schema's columns (the dimensions,
\* then observation_value), in any order, with repetitions.
MaxCols == 2

\* The data lines of a body parsed in a scan of one URL, from line i on:
\* the store [dimensions, rows] (no line of these bodies is short).
RECURSIVE ParseDataLines(_, _, _, _)
ParseDataLines(lines, i, header, store) ==
    IF i > Len(lines) THEN store
    ELSE
    LET o == CHOOSE x \in ParseDatarow(store.dimensions, store.rows,
                                       header.time_periods,
                                       header.geo_column_index, lines[i],
                                       {}, FALSE) : TRUE
    IN  ParseDataLines(lines, i + 1, header,
                       [dimensions |-> o.dimensions, rows |-> o.rows])

\* The state ES_Read::Init returns for a scan whose one URL delivered the
\* payload, but for the requested columns; Bind's schema is that of the
\* payload's keys.
InitReturned ==
    /\ pc = "pushed"
    /\ in_expressions = << >>
    /\ expressions = << >>
    /\ table_filters = NullFilterSet
    /\ result = EmptyResult
    /\ complex_filters = << >>
    /\ GeoIdle
    /\ ExecIdle
    /\ \E keys \in KeyLists :
          \E lines \in SeqsOf(DataLinesOf(keys), 0, MaxLines) :
             LET body == Body(HeaderOf(keys), lines)
                 header == ParseHeader(BodyLines(body)[1])
                 store == ParseDataLines(BodyLines(body), 2, header,
                                         [dimensions |-> << >>, rows |-> << >>])
             IN  /\ data_structure = GetBasicDataSchema(keys)
                 /\ filter_set = EurostatFilterSet(data_structure)
                 /\ responses = <<HttpResponse(TSV, 200, "", body)>>
                 /\ line_pos = Len(BodyLines(body))
                 /\ line_index = Len(BodyLines(body))
                 /\ time_periods = header.time_periods
                 /\ geo_column_index = header.geo_column_index
                 /\ dimensions = store.dimensions
                 /\ rows = store.rows
    /\ scan_pc = "done"
    /\ url_total = 1
    /\ data_urls = <<base_url \o <<"?">> \o FORMAT_PARAMETERS>>
    /\ exception = NoException
    /\ url_count = 1
    /\ row_keys = {}
    /\ check_keys = FALSE

\* Init copies input.column_ids: here any columns of the schema.
InitExec ==
    /\ InitReturned
    /\ column_ids \in SeqsOf(0..Len(data_structure), 1, MaxCols)

NextExec == Execute

SpecExec == InitExec /\ [][NextExec]_vars

\* Init copies input.column_ids: here the columns of the schema and the
\* row-id column the engine asks for when a query needs no column of the
\* table (`SELECT count(*)`).
InitRowId ==
    /\ InitReturned
    /\ column_ids \in SeqsOf((0..Len(data_structure)) \cup {COLUMN_IDENTIFIER_ROW_ID},
                              1, MaxCols)

SpecRowId == InitRowId /\ [][NextExec]_vars

\* --------------------------------------------------------------------
\* C17  Projection mapping.  Every row of a batch has one column per
\* requested index, in the requested order: the row's time period for
\* the index that equals the number of dimension columns, its observation
\* value for that number plus one, and otherwise the entry of its
\* Dimension Values row at the index.
\* --------------------------------------------------------------------
\* Dimension columns of the schema: all of data_structure but the time
\* dimension, whose column comes right after them.
DimensionCount == Len(data_structure) - 1

ExpectedCell(datarow, j) ==
    LET idx == column_ids[j]
    IN  IF idx = DimensionCount THEN VarcharValue(datarow.time_period)
        ELSE IF idx = DimensionCount + 1
        THEN DoubleValue(datarow.observation_value)
        ELSE VarcharValue(dimensions[datarow.dimension_index + 1].values[idx + 1])

ExpectedRow(datarow) ==
    [j \in 1..Len(column_ids) |-> ExpectedCell(datarow, j)]

\* The row of the store that row k of the last batch was made from.
BatchRow(k) == rows[current_row - Len(output) + k]

C17_ProjectionMapping ==
    \A k \in 1..Len(output) :
        /\ Len(output[k]) = Len(column_ids)
        /\ output[k] = ExpectedRow(BatchRow(k))

\* A batch with the value column requested before a dimension column,
\* and one with a column requested twice.
C17_Witness ==
    /\ Len(output) > 0
    /\ Len(column_ids) = 2
    /\ \/ column_ids[1] = DimensionCount + 1 /\ column_ids[2] < DimensionCount
       \/ column_ids[1] = column_ids[2]

\* --------------------------------------------------------------------
\* C18  Paged emission.  At every point the cursor lies between 0 and the
\* number of rows, the last batch has at most STANDARD_VECTOR_SIZE rows,
\* and the rows put out so far are exactly the first current_row rows of
\* the store, in store order.  A call never moves the cursor back; while
\* rows are left it puts out at least one and advances the cursor, so the
\* end is reached after finitely many calls; at the end it returns 0 rows
\* and leaves cursor and emitted rows as they are.
\* --------------------------------------------------------------------
C18_Cursor ==
    /\ 0 <= current_row
    /\ current_row <= Len(rows)
    /\ Len(output) <= STANDARD_VECTOR_SIZE
    /\ Len(emitted) = current_row
    /\ \A r \in 1..Len(emitted) : emitted[r] = ExpectedRow(rows[r])

C18_Call ==
    /\ current_row' >= current_row
    /\ current_row < Len(rows) =>
          /\ current_row' > current_row
          /\ Len(output') = current_row' - current_row
    /\ current_row = Len(rows) =>
          /\ output' = << >>
          /\ current_row' = current_row
          /\ emitted' = emitted

C18_PagedEmission == []C18_Cursor /\ [][C18_Call]_vars

\* The empty batch has been returned after a full and a partial page.
C18_Witness ==
    /\ Len(rows) = STANDARD_VECTOR_SIZE + 1
    /\ current_row = Len(rows)
    /\ output = << >>

\* --------------------------------------------------------------------
\* C19  Column alignment of geo_level.  Every row of a batch shows, in
\* the column of a schema dimension, the wire key value of that dimension
\* of its data line, and in the column geo_level the classification of
\* the line's geo value.
\* --------------------------------------------------------------------
\* The payload's key names and the key values of the data line that made
\* Dimension Values row i (0-based).
WireKeys ==
    LET header == BodyLines(responses[1].body)[1]
    IN  Split(SubSeq(header, 1, FindToken(header) - 1), ",")

WireKeyValues(i) ==
    Split(Split(BodyLines(responses[1].body)[i + 2], TAB)[1], ",")

\* The wire value of the dimension called name in that line.
WireValueOf(name, i) ==
    LET w == CHOOSE x \in 1..Len(WireKeys) : Lower(WireKeys[x]) = <<name>>
    IN  WireKeyValues(i)[w]

C19_GeoLevelAlignment ==
    \A k \in 1..Len(output) : \A j \in 1..Len(column_ids) :
        column_ids[j] < DimensionCount =>
            LET name == data_structure[column_ids[j] + 1].name
                i == BatchRow(k).dimension_index
            IN  output[k][j] =
                    VarcharValue(IF name = "geo_level"
                                 THEN GetGeoLevelFromGeoCode(WireValueOf("geo", i))
                                 ELSE WireValueOf(name, i))

\* --------------------------------------------------------------------
\* C20  Dedup activation and uniqueness.  Row keys are checked exactly
\* when the scan has more than one distinct URL.  While they are, no two
\* Observation rows of the store have the same raw key token and time
\* period.  In a scan of one URL every data line adds a row for each of
\* its observations, also when its key token was seen before.
\* --------------------------------------------------------------------
\* The raw key token of a Dimension Values row: its values without the
\* appended geo level, joined by commas.
RawKeyToken(dim_values) ==
    LET vs == dim_values.values
    IN  Join(IF vs /= << >> /\ Last(vs) \in GeoLevels THEN PopBack(vs) ELSE vs,
             ",")

RowKeyOf(datarow) ==
    RowKey(RawKeyToken(dimensions[datarow.dimension_index + 1]),
           datarow.time_period)

IsPrefix(p, q) == Len(p) <= Len(q) /\ SubSeq(q, 1, Len(p)) = p

C20_Activation ==
    scan_pc /= "idle" =>
        /\ check_keys <=> Cardinality(Range(data_urls)) > 1
        /\ check_keys =>
              \A a, b \in 1..Len(rows) :
                  a /= b => RowKeyOf(rows[a]) /= RowKeyOf(rows[b])

C20_NothingSuppressed ==
    AtDataLine =>
        LET line == BodyLines(responses[url_count].body)[line_pos + 1]
        IN  /\ IsPrefix(rows, rows')
            /\ IsPrefix(ExpectedRows(LineFields(line), time_periods, 1,
                                     Len(dimensions)),
                        SubSeq(rows', Len(rows) + 1, Len(rows')))

C20_DedupUniqueness == []C20_Activation /\ [][C20_NothingSuppressed]_vars

\* Two URLs delivered different payloads with the same key token, and the
\* second payload's line was suppressed.
C20_Witness ==
    /\ scan_pc = "done"
    /\ check_keys
    /\ Len(responses) = 2
    /\ responses[1].body /= responses[2].body
    /\ DataLineCount(responses[1].body) = 1
    /\ DataLineCount(responses[2].body) = 1
    /\ Len(dimensions) = 1
    /\ Len(rows) > 0

\* --------------------------------------------------------------------
\* C21  Comparison encoding table.  A comparison of a projected column
\* with a non-NULL constant is encoded as follows.  On the time dimension
\* `=` sets both period bounds, `>=` the start bound only, `<=` the end
\* bound only, anything else is unsupported.  On any other dimension `=`
\* appends the constant to the dimension's mask slot, after a '+' when
\* the slot holds something, and anything else is unsupported.  A
\* supported comparison changes that slot or bound of the last branch
\* only; an unsupported one changes no slot and no bound.
\* --------------------------------------------------------------------
IsConstantComparison(e) ==
    /\ e.cls = "BOUND_COMPARISON"
    /\ e.lcls = "BOUND_COLUMN_REF" /\ e.rcls = "BOUND_CONSTANT"
    /\ Projected(e.binding)
    /\ ~e.values[1].is_null

\* The table: is `dimension d <type> constant` supported ...
TableSupports(d, type) ==
    IF IsTime(d)
    THEN type \in {"COMPARE_EQUAL", "COMPARE_GREATERTHANOREQUALTO",
                   "COMPARE_LESSTHANOREQUALTO"}
    ELSE type = "COMPARE_EQUAL"

\* ... and the branch it leaves.
TableBranch(branch, d, type, str) ==
    IF ~TableSupports(d, type) THEN branch
    ELSE IF IsTime(d)
    THEN CASE type = "COMPARE_EQUAL" ->
                [branch EXCEPT !.start_period = <<"startPeriod=", str>>,
                               !.end_period = <<"endPeriod=", str>>]
           [] type = "COMPARE_GREATERTHANOREQUALTO" ->
                [branch EXCEPT !.start_period = <<"startPeriod=", str>>]
           [] type = "COMPARE_LESSTHANOREQUALTO" ->
                [branch EXCEPT !.end_period = <<"endPeriod=", str>>]
    ELSE [branch EXCEPT !.dim_mask[d + 1] =
                            IF @ = << >> THEN <<str>> ELSE @ \o <<"+", str>>]

ComparisonSupported(e) == TableSupports(DimOf(e.binding), e.type)

ComparisonBranch(branch, e) ==
    TableBranch(branch, DimOf(e.binding), e.type, e.values[1].str)

\* The branch every compilation starts from.
FreshBranch == EurostatFilter(data_structure)

C21_ComparisonTable ==
    /\ (pc = "pushed" /\ Len(in_expressions) = 1
        /\ IsConstantComparison(in_expressions[1]))
       => /\ filter_set.filters = <<ComparisonBranch(FreshBranch, in_expressions[1])>>
          /\ result.supported <=> ComparisonSupported(in_expressions[1])
    /\ (pc = "pushed" /\ Len(in_expressions) = 1
        /\ in_expressions[1].cls = "BOUND_CONJUNCTION"
        /\ in_expressions[1].type \in ConjunctionTypes
        /\ Len(in_expressions[1].children) = 2
        /\ IsConstantComparison(in_expressions[1].children[1])
        /\ ComparisonSupported(in_expressions[1].children[1])
        /\ IsConstantComparison(in_expressions[1].children[2]))
       => LET a == in_expressions[1].children[1]
              c == in_expressions[1].children[2]
              first == ComparisonBranch(FreshBranch, a)
          IN  IF in_expressions[1].type = "CONJUNCTION_AND"
              THEN filter_set.filters = <<ComparisonBranch(first, c)>>
              ELSE filter_set.filters =
                      IF ComparisonSupported(c)
                      THEN <<first, ComparisonBranch(FreshBranch, c), FreshBranch>>
                      ELSE <<first, FreshBranch>>
    /\ (pc = "encoded" /\ Len(table_filters.filters) = 1
        /\ EntryProjected(table_filters.filters[1])
        /\ EntryDim(table_filters.filters[1]) \in DimIndices
        /\ ~IsVirtual(EntryDim(table_filters.filters[1]))
        /\ table_filters.filters[1].second.filter_type = "CONSTANT_COMPARISON"
        /\ ~table_filters.filters[1].second.constant.is_null)
       => LET f == table_filters.filters[1].second
              d == EntryDim(table_filters.filters[1])
          IN  /\ filter_set.filters =
                    <<TableBranch(FreshBranch, d, f.comparison_type, f.constant.str)>>
              /\ result.supported <=> TableSupports(d, f.comparison_type)

\* Two equalities on one key dimension under an AND were compiled: the
\* second constant went behind a '+' in the slot of the first.
C21_Witness ==
    /\ pc = "pushed"
    /\ Len(in_expressions) = 1
    /\ in_expressions[1].cls = "BOUND_CONJUNCTION"
    /\ in_expressions[1].type = "CONJUNCTION_AND"
    /\ Len(in_expressions[1].children) = 2
    /\ IsConstantComparison(in_expressions[1].children[1])
    /\ IsConstantComparison(in_expressions[1].children[2])
    /\ DimOf(in_expressions[1].children[1].binding) \in KeyDims
    /\ \E i \in 1..Len(filter_set.filters[1].dim_mask) :
          filter_set.filters[1].dim_mask[i] = <<"1", "+", "2">>

\* --------------------------------------------------------------------
\* C22  Filter clause layout.  With n key dimensions (neither virtual nor
\* time), every emitted clause is "/" s1 "." ... "." sn "?", then
\* "startPeriod=X&" when the branch has a start bound, then "endPeriod=Y&"
\* when it has an end bound.  It holds exactly n - 1 dots, and slot k is
\* the mask of the dimension whose key position is k, or nothing.
\* --------------------------------------------------------------------
DotCount(clause) == Cardinality({i \in 1..Len(clause) : clause[i] = "."})

\* The clause the layout prescribes for a branch.
LayoutOf(branch) ==
    <<"/">>
        \o Join([k \in 1..Cardinality(KeyDims) |-> branch.dim_mask[KeyDimAt(k) + 1]], ".")
        \o <<"?">>
        \o (IF branch.start_period /= << >>
            THEN branch.start_period \o <<"&">> ELSE << >>)
        \o (IF branch.end_period /= << >>
            THEN branch.end_period \o <<"&">> ELSE << >>)

C22_ClauseLayout ==
    (pc \in {"pushed", "encoded"} /\ result.supported) =>
        LET kept == SelectSeq(filter_set.filters, NonEmptyBranch)
        IN  /\ Len(result.filters) = Len(kept)
            /\ \A i \in 1..Len(kept) :
                  /\ result.filters[i] = LayoutOf(kept[i])
                  /\ DotCount(result.filters[i]) = Cardinality(KeyDims) - 1
                  /\ Len(ClauseSlots(result.filters[i])) = Cardinality(KeyDims)

\* --------------------------------------------------------------------
\* C23  Branch-set structure.  A compilation starts from exactly one
\* empty branch and the set is never empty.  Its length grows only by one
\* fresh empty branch after each successfully encoded OR child, so after
\* k such children it holds k + 1 branches and the last one is empty
\* unless it was written to afterwards.  Encoding writes into the last
\* branch only: a branch that has a later branch behind it never changes.
\* --------------------------------------------------------------------
\* The OR children of a tree that get encoded, counted in encoding order
\* up to the first node that fails: [ok, n].
RECURSIVE EncodedOrChildren(_)
RECURSIVE EncodedOrChildrenOf(_, _, _)
EncodedOrChildrenOf(children, i, push) ==
    IF i > Len(children) THEN [ok |-> TRUE, n |-> 0]
    ELSE LET c == EncodedOrChildren(children[i])
         IN  IF ~c.ok THEN [ok |-> FALSE, n |-> c.n]
             ELSE LET rest == EncodedOrChildrenOf(children, i + 1, push)
                  IN  [ok |-> rest.ok,
                       n |-> c.n + (IF push THEN 1 ELSE 0) + rest.n]

EncodedOrChildren(e) ==
    IF e.cls = "BOUND_CONJUNCTION" /\ e.type \in ConjunctionTypes
    THEN EncodedOrChildrenOf(e.children, 1, e.type = "CONJUNCTION_OR")
    ELSE [ok |-> ~UnsupportedShape(e), n |-> 0]

\* The same for a table filter on dimension d.
RECURSIVE EncodedOrFilters(_, _)
RECURSIVE EncodedOrFiltersOf(_, _, _, _)
EncodedOrFiltersOf(child_filters, i, d, push) ==
    IF i > Len(child_filters) THEN [ok |-> TRUE, n |-> 0]
    ELSE LET c == EncodedOrFilters(child_filters[i], d)
         IN  IF ~c.ok THEN [ok |-> FALSE, n |-> c.n]
             ELSE LET rest == EncodedOrFiltersOf(child_filters, i + 1, d, push)
                  IN  [ok |-> rest.ok,
                       n |-> c.n + (IF push THEN 1 ELSE 0) + rest.n]

EncodedOrFilters(f, d) ==
    IF f.filter_type \in {"CONJUNCTION_AND", "CONJUNCTION_OR"}
       /\ f.child_filters /= << >>
    THEN EncodedOrFiltersOf(f.child_filters, 1, d,
                            f.filter_type = "CONJUNCTION_OR")
    ELSE IF f.filter_type = "OPTIONAL_FILTER" /\ f.child_filters /= << >>
    THEN EncodedOrFilters(f.child_filters[1], d)
    ELSE [ok |-> ~UnsupportedFilter(f, d), n |-> 0]

\* The entries of a TableFilterSet, up to the first that is not encoded.
RECURSIVE EncodedOrEntries(_, _)
EncodedOrEntries(entries, i) ==
    IF i > Len(entries) THEN 0
    ELSE IF \/ ~EntryProjected(entries[i])
            \/ EntryDim(entries[i]) \notin DimIndices
    THEN 0
    ELSE IF IsVirtual(EntryDim(entries[i])) THEN 0
    ELSE LET c == EncodedOrFilters(entries[i].second, EntryDim(entries[i]))
         IN  IF c.ok THEN c.n + EncodedOrEntries(entries, i + 1) ELSE c.n

\* What compiling the expressions alone leaves in the branch set.
BranchesOf(exprs) ==
    EncodeExpression(exprs, data_structure, column_ids).filter_set.filters

\* A disjunction all of whose children get encoded.
EncodedDisjunction(e) ==
    /\ e.cls = "BOUND_CONJUNCTION" /\ e.type = "CONJUNCTION_OR"
    /\ EncodedOrChildren(e).ok

C23_BranchSetStructure ==
    /\ Len(filter_set.filters) >= 1
    /\ pc = "bound" => filter_set.filters = <<FreshBranch>>
    /\ pc = "pushed" =>
          /\ Len(filter_set.filters) =
                1 + EncodedOrChildrenOf(in_expressions, 1, FALSE).n
          /\ (/\ in_expressions /= << >>
              /\ EncodedOrChildrenOf(in_expressions, 1, FALSE).ok
              /\ EncodedDisjunction(Last(in_expressions)))
             => Last(filter_set.filters) = FreshBranch
          /\ Len(in_expressions) = 2 =>
                IsPrefix(PopBack(BranchesOf(<<in_expressions[1]>>)),
                         filter_set.filters)
          /\ (/\ Len(in_expressions) = 1
              /\ in_expressions[1].cls = "BOUND_CONJUNCTION"
              /\ in_expressions[1].type \in ConjunctionTypes
              /\ Len(in_expressions[1].children) >= 2)
             => IsPrefix(PopBack(BranchesOf(<<in_expressions[1].children[1]>>)),
                         filter_set.filters)
    /\ pc = "encoded" =>
          Len(filter_set.filters) = 1 + EncodedOrEntries(table_filters.filters, 1)

\* An equality and then a disjunction of two equalities were compiled:
\* three branches, the first written by both, the last one still empty.
C23_Witness ==
    /\ pc = "pushed"
    /\ Len(in_expressions) = 2
    /\ EncodedDisjunction(in_expressions[2])
    /\ result.supported
    /\ Len(filter_set.filters) = 3
    /\ filter_set.filters[1] /= BranchesOf(<<in_expressions[1]>>)[1]
    /\ Last(filter_set.filters) = FreshBranch

\* --------------------------------------------------------------------
\* C24  Fork duplication.  For an equality on a key dimension B followed,
\* in the same AND chain, by a disjunction of two equalities on another
\* key dimension A, there is one clause per disjunct and every clause
\* constrains B to its constant: `B = 3 AND (A = 1 OR A = 2)` gives one
\* clause with A = 1 and B = 3 and one with A = 2 and B = 3.
\* --------------------------------------------------------------------
IsKeyEquality(e) == IsEquality(e) /\ DimOf(e.binding) \in KeyDims

\* The chain as the engine hands it over: one AND node, or a list of two
\* expressions.  << >> when the predicate is no such chain.
ForkChain ==
    IF Len(in_expressions) = 2 THEN in_expressions
    ELSE IF /\ Len(in_expressions) = 1
            /\ in_expressions[1].cls = "BOUND_CONJUNCTION"
            /\ in_expressions[1].type = "CONJUNCTION_AND"
            /\ Len(in_expressions[1].children) = 2
    THEN in_expressions[1].children
    ELSE << >>

IsForkChain ==
    /\ ForkChain /= << >>
    /\ IsKeyEquality(ForkChain[1])
    /\ IsOrOfEqualities(ForkChain[2])
    /\ Len(ForkChain[2].children) = 2
    /\ IsKeyEquality(ForkChain[2].children[1])
    /\ DimOf(ForkChain[2].children[1].binding) /= DimOf(ForkChain[1].binding)

\* The selector of key dimension d in the clause.
SlotOf(clause, d) == ClauseSlots(clause)[data_structure[d + 1].position]

C24_ForkDuplication ==
    (pc = "pushed" /\ IsForkChain) =>
        LET b == ForkChain[1]
            disj == ForkChain[2]
        IN  /\ result.supported
            /\ Len(result.filters) = 2
            /\ \A i \in 1..2 :
                  /\ SlotOf(result.filters[i], DimOf(b.binding)) = <<b.values[1].str>>
                  /\ SlotOf(result.filters[i], DimOf(disj.children[i].binding))
                        = <<disj.children[i].values[1].str>>

\* --------------------------------------------------------------------
\* C25  NULL constants are never pushed down.  A predicate that holds a
\* NULL constant anywhere -- in a comparison, as a member of an IN list,
\* as the lower or the upper bound of a BETWEEN -- compiles to
\* supported = false with no clause, and stays with the engine.
\* --------------------------------------------------------------------
RECURSIVE HoldsNull(_)
HoldsNull(e) ==
    \/ \E i \in 1..Len(e.values) : e.values[i].is_null
    \/ \E i \in 1..Len(e.children) : HoldsNull(e.children[i])

RECURSIVE FilterHoldsNull(_)
FilterHoldsNull(f) ==
    \/ f.filter_type = "CONSTANT_COMPARISON" /\ f.constant.is_null
    \/ \E i \in 1..Len(f.values) : f.values[i].is_null
    \/ \E i \in 1..Len(f.child_filters) : FilterHoldsNull(f.child_filters[i])

C25_NullNeverPushed ==
    /\ (pc = "pushed" /\ \E i \in 1..Len(in_expressions) : HoldsNull(in_expressions[i]))
       => /\ ~result.supported
          /\ result.filters = << >>
          /\ complex_filters = << >>
          /\ expressions = in_expressions
    /\ (pc = "encoded" /\ \E i \in 1..Len(table_filters.filters) :
                             FilterHoldsNull(table_filters.filters[i].second))
       => (~result.supported /\ result.filters = << >>)

\* --------------------------------------------------------------------
\* C26  Exactly-once delivery under deduplication.  When a scan of more
\* than one URL has read all its payloads (none of them an error
\* document), the row store holds exactly one Observation row for every
\* (raw key token, time period) pair for which some fetched line carries
\* a parseable value: a pair first seen with a missing value does not
\* block a later value.
\* --------------------------------------------------------------------
\* The non-empty lines of a body: the header, then the data lines.
PayloadLines(body) == SelectSeq(BodyLines(body), LAMBDA l : l /= << >>)

\* The row keys for which a line of the body carries a parseable value.
CarriedKeys(body) ==
    LET lines == PayloadLines(body)
    IN  IF lines = << >> THEN {}
        ELSE
        LET periods == ParseHeader(lines[1]).time_periods
        IN  {RowKey(LineFields(lines[j])[1], periods[i]) :
                <<j, i>> \in {p \in (2..Len(lines)) \X (1..Len(periods)) :
                    LET fields == LineFields(lines[p[1]])
                    IN  /\ p[2] + 1 <= Len(fields)
                        /\ TryCastDouble(Trim(fields[p[2] + 1])).ok}}

RowsOfKey(key) == {a \in 1..Len(rows) : RowKeyOf(rows[a]) = key}

C26_ExactlyOnce ==
    (/\ scan_pc = "done"
     /\ check_keys
     /\ \A u \in 1..Len(responses) : responses[u].content_type = TSV)
    => \A u \in 1..Len(responses) :
          \A key \in CarriedKeys(responses[u].body) :
              Cardinality(RowsOfKey(key)) = 1

\* --------------------------------------------------------------------
\* C27  Compiler index safety.  Whatever the predicate and the column
\* list, the compiler reads the schema and writes a branch mask only at
\* indices 0 .. number of dimensions - 1.  A predicate on a column that
\* is no dimension of the schema (observation_value, a virtual column, a
\* binding outside the column list) is reported as unsupported.
\* --------------------------------------------------------------------
\* Does the tree hold a comparison, IN or BETWEEN on a column that is not
\* a dimension of the schema?
RECURSIVE ReferencesNonDimension(_)
ReferencesNonDimension(e) ==
    IF e.cls = "BOUND_CONJUNCTION"
    THEN \E i \in 1..Len(e.children) : ReferencesNonDimension(e.children[i])
    ELSE /\ e.cls \in {"BOUND_COMPARISON", "BOUND_OPERATOR", "BOUND_BETWEEN"}
         /\ e.lcls = "BOUND_COLUMN_REF"
         /\ (~Projected(e.binding) \/ DimOf(e.binding) \notin DimIndices)

C27_CompilerIndexSafety ==
    /\ pc /= "crashed"
    /\ pc = "pushed"
       => ~EncodeExpression(in_expressions, data_structure, column_ids).undefined
    /\ (pc = "pushed" /\ \E i \in 1..Len(in_expressions) :
                            ReferencesNonDimension(in_expressions[i]))
       => (~result.supported /\ result.filters = << >> /\ complex_filters = << >>)
    /\ (pc = "encoded" /\ \E i \in 1..Len(table_filters.filters) :
            \/ ~EntryProjected(table_filters.filters[i])
            \/ EntryDim(table_filters.filters[i]) \notin DimIndices)
       => (~result.supported /\ result.filters = << >>)

\* --------------------------------------------------------------------
\* C28  Parser index safety.  ParseDatarow reads only fields and key
\* values that the line has: no step that parses a data line ends the
\* process, the line has a key value at the position of geo, and every
\* Observation row the step stores comes from a field of the line; a
\* field the line does not have counts as a missing observation.
\* --------------------------------------------------------------------
\* The scan is about to parse a data line, with or without deduplication.
AtAnyDataLine ==
    /\ scan_pc = "parse"
    /\ line_index > 0
    /\ line_pos < Len(BodyLines(responses[url_count].body))
    /\ BodyLines(responses[url_count].body)[line_pos + 1] /= << >>

\* The 0-based positions of a period in the header.
PeriodPositions(time_period) ==
    {i \in 0..(Len(time_periods) - 1) : time_periods[i + 1] = time_period}

C28_ParserIndexSafety ==
    [][AtAnyDataLine =>
        LET line == BodyLines(responses[url_count].body)[line_pos + 1]
            tokens == GetLineAll(line, TAB)
            values == GetLineAll(tokens[1], ",")
        IN  /\ scan_pc' /= "crashed"
            /\ Len(dimensions') > Len(dimensions) /\ geo_column_index /= -1
               => geo_column_index < Len(values)
            /\ \A k \in (Len(rows) + 1)..Len(rows') :
                   \E i \in PeriodPositions(rows'[k].time_period) :
                       i + 1 < Len(tokens)]_vars

\* --------------------------------------------------------------------
\* C29  Assembler index safety.  Whatever columns are requested, the
\* row-id column included, Execute reads a Dimension Values row only at
\* indices below its length (the two indices behind it stand for the time
\* period and the value) and every Observation row refers to a Dimension
\* Values row of the store; no batch ends the process.
\* --------------------------------------------------------------------
C29_AssemblerIndexSafety ==
    /\ scan_pc /= "crashed"
    /\ \A k \in 1..Len(rows) : rows[k].dimension_index < Len(dimensions)
    /\ \A k \in 1..Len(emitted) :
          \A c \in 1..Len(column_ids) :
             column_ids[c] <= Len(dimensions[rows[k].dimension_index + 1].values) + 1

\* ====================================================================
\* The scan against a service with a fixed response per URL
\* ====================================================================
\* The URL of the i-th clause of a fan-out.
ServiceUrl(i) == base_url \o <<"/", ToString(i), "?">> \o FORMAT_PARAMETERS

\* What the service answers, URL by URL: an error document, a failed
\* request, and payloads whose lines carry a field for every period:
\* `x,y<TAB>5<TAB>:`, `x,y<TAB><TAB>7`, `A,DE<TAB> 7 <TAB>5 p` under the
\* header with a geo column, and the first two lines in one payload.
ServiceResponses ==
    LET header_ab == <<"A", ",", "B", TIME_PERIOD_TOKEN, TAB, "2020", TAB, "2021">>
        header_geo == <<"freq", ",", "GEO", TIME_PERIOD_TOKEN, TAB,
                        "2020", " ", TAB, "2021", " ">>
        first == <<"x", ",", "y", TAB, "5", TAB, ":">>
        second == <<"x", ",", "y", TAB, TAB, "7">>
        other == <<"A", ",", "DE", TAB, " ", "7", " ", TAB, "5", " ", "p">>
    IN  << HttpResponse("application/xml", 400, "", <<"<error/>">>),
           HttpResponse(TSV, 404, "", << >>),
           HttpResponse(TSV, 200, "", Body(header_ab, <<first>>)),
           HttpResponse(TSV, 200, "", Body(header_ab, <<second>>)),
           HttpResponse(TSV, 200, "", Body(header_geo, <<other>>)),
           HttpResponse(TSV, 200, "", Body(header_ab, <<first, second>>)) >>

ServiceUrls == {ServiceUrl(i) : i \in 1..Len(ServiceResponses)}

\* HttpRequest::ExecuteHttpRequest(settings, data_url, "GET", ...)
ExecuteHttpRequest(data_url) ==
    ServiceResponses[CHOOSE i \in 1..Len(ServiceResponses) : ServiceUrl(i) = data_url]

\* The state at the start of the URL loop of ES_Read::Init: GetDataUrls
\* has returned the keys of its unordered map, at most MaxUrls of the
\* service's URLs in one of their orders.
InitOrder ==
    /\ pc = "scan"
    /\ data_structure = << >>
    /\ column_ids = << >>
    /\ in_expressions = << >>
    /\ expressions = << >>
    /\ table_filters = NullFilterSet
    /\ result = EmptyResult
    /\ filter_set = EurostatFilterSet(<< >>)
    /\ complex_filters = << >>
    /\ scan_pc = "fetch"
    /\ data_urls \in {urls \in SeqsOf(ServiceUrls, 1, MaxUrls) :
                         \A i, j \in 1..Len(urls) : i /= j => urls[i] /= urls[j]}
    /\ url_total = Len(data_urls)
    /\ exception = NoException
    /\ responses = << >>
    /\ url_count = 0
    /\ line_pos = 0
    /\ line_index = 0
    /\ time_periods = << >>
    /\ geo_column_index = -1
    /\ row_keys = {}
    /\ check_keys = (url_total > 1)
    /\ dimensions = << >>
    /\ rows = << >>
    /\ GeoIdle
    /\ ExecIdle

\* One iteration of the URL loop up to the parsing loop: the request for
\* the next URL of the list and the checks of the response.
FetchService ==
    /\ scan_pc = "fetch"
    /\ url_count < url_total
    /\ LET response == ExecuteHttpRequest(data_urls[url_count + 1])
           c == CheckResponse(response)
       IN  /\ responses' = Append(responses, response)
           /\ url_count' = url_count + 1
           /\ rows' = IF c.clear_rows THEN << >> ELSE rows
           /\ scan_pc' = c.next
           /\ exception' = c.exception
    /\ line_pos' = 0
    /\ line_index' = 0
    /\ time_periods' = << >>
    /\ geo_column_index' = -1
    /\ UNCHANGED <<url_total, data_urls, row_keys, check_keys, dimensions>>
    /\ UNCHANGED <<encVars, geoVars, execVars>>

NextOrder == FetchService \/ ParseLine \/ EndOfBody \/ ReturnState

SpecOrder == InitOrder /\ [][NextOrder]_vars

\* The parsing loop of ES_Read::Init over the lines of one body, from
\* line pos (1-based) on, as a function of the state st = [failed,
\* line_index, time_periods, geo_column_index, dimensions, rows,
\* row_keys] (every line of the service's payloads is complete, so
\* ParseDatarow has one outcome).
RECURSIVE InitParseLoop(_, _, _, _)
InitParseLoop(lines, pos, st, chk) ==
    IF pos > Len(lines) \/ st.failed THEN st
    ELSE IF lines[pos] = << >> THEN InitParseLoop(lines, pos + 1, st, chk)
    ELSE IF st.line_index = 0
    THEN LET h == ParseHeader(lines[pos])
         IN  InitParseLoop(lines, pos + 1,
                           [st EXCEPT !.failed = (h.thrown /= ""),
                                      !.time_periods = h.time_periods,
                                      !.geo_column_index = h.geo_column_index,
                                      !.line_index = st.line_index + 1],
                           chk)
    ELSE LET o == CHOOSE x \in ParseDatarow(st.dimensions, st.rows,
                                            st.time_periods,
                                            st.geo_column_index, lines[pos],
                                            st.row_keys, chk) : TRUE
         IN  InitParseLoop(lines, pos + 1,
                           [st EXCEPT !.dimensions = o.dimensions,
                                      !.rows = o.rows,
                                      !.row_keys = o.row_keys,
                                      !.line_index = st.line_index + 1],
                           chk)

\* The URL loop of ES_Read::Init over the list urls, from URL i (1-based)
\* on: the state Init returns, or failed when it throws.
RECURSIVE InitUrlLoop(_, _, _)
InitUrlLoop(urls, i, st) ==
    IF i > Len(urls) THEN st
    ELSE
    LET response == ExecuteHttpRequest(urls[i])
        c == CheckResponse(response)
    IN  IF c.next = "done" THEN [st EXCEPT !.rows = << >>]
        ELSE IF c.next = "failed" THEN [st EXCEPT !.failed = TRUE]
        ELSE
        LET parsed == InitParseLoop(BodyLines(response.body), 1,
                                    [st EXCEPT !.line_index = 0,
                                               !.time_periods = << >>,
                                               !.geo_column_index = -1],
                                    Len(urls) > 1)
        IN  IF parsed.failed THEN parsed
            ELSE InitUrlLoop(urls, i + 1, parsed)

\* ES_Read::Init for the URL list urls.
InitFor(urls) ==
    InitUrlLoop(urls, 1,
                [failed |-> FALSE, line_index |-> 0, time_periods |-> << >>,
                 geo_column_index |-> -1, dimensions |-> << >>,
                 rows |-> << >>, row_keys |-> {}])

\* --------------------------------------------------------------------
\* C30  Fetch-order independence.  For a fixed set of URLs and a fixed
\* response per URL, whether the scan fails, and the set of (dimension
\* values, time period, value) rows it puts out when it succeeds, are the
\* same for every order in which the URLs are fetched.
\* --------------------------------------------------------------------
\* The rows of a store as (dimension values, time period, value).
RowSet(dims, rs) ==
    {[values |-> dims[rs[k].dimension_index + 1].values,
      time_period |-> rs[k].time_period,
      observation_value |-> rs[k].observation_value] : k \in 1..Len(rs)}

\* The outcome of a scan: failure, or the rows it puts out.
Outcome(failed, dims, rs) ==
    [failed |-> failed, rows |-> IF failed THEN {} ELSE RowSet(dims, rs)]

OutcomeFor(urls) ==
    LET st == InitFor(urls)
    IN  Outcome(st.failed, st.dimensions, st.rows)

ScanOver == scan_pc \in {"done", "failed"}

C30_FetchOrderIndependence ==
    ScanOver =>
        \A urls \in Orders(data_urls) :
            OutcomeFor(urls) = Outcome(scan_pc = "failed", dimensions, rows)

====
